---- MODULE Spec2Model ----
(***************************************************************************)
(* rlox: the single-pass bytecode compiler (compiler.rs), its scanner      *)
(* (scanner.rs), the chunk and object heap (chunk.rs, object.rs) and the   *)
(* stack VM (vm.rs).  Source text is a TLA+ string, scanned character by   *)
(* character; compile is a recursive-descent operator over the parser      *)
(* record; the VM executes one dispatch of VM::run per step.               *)
(* Numbers are the integer-valued f64s; a Rust panic is the sticky flag    *)
(* `crashed` of the scanner, parser or VM record.                          *)
(***************************************************************************)
EXTENDS Integers, Sequences, FiniteSets, TLC

(***************************************************************************)
(* Text helpers.                                                           *)
(***************************************************************************)
\* `let v = ...;` followed by Body: v is evaluated first, and once, however
\* often Body uses it
Bind(v, Body(_)) == CASE v = v -> Body(v)

\* the character of str at 0-based index i, as a one-character string
CharAt(str, i) == SubSeq(str, i + 1, i + 1)

\* &str[from..to] of Rust: the characters at 0-based indices from..to-1
Slice(str, from, to) == SubSeq(str, from + 1, to)

Digits == <<"0", "1", "2", "3", "4", "5", "6", "7", "8", "9">>

RECURSIVE FormatNat(_)
FormatNat(n) == IF n < 10 THEN Digits[n + 1]
                ELSE FormatNat(n \div 10) \o Digits[(n % 10) + 1]

\* format!("{}", n) for an integer-valued number or a usize
FormatNumber(n) == IF n < 0 THEN "-" \o FormatNat(0 - n) ELSE FormatNat(n)

DigitValue(c) == CHOOSE d \in 0..9 : Digits[d + 1] = c

RECURSIVE ParseNat(_, _)
ParseNat(str, acc) == IF Len(str) = 0 THEN acc
                      ELSE ParseNat(Tail(str), acc * 10 + DigitValue(Head(str)))

\* str.parse::<f64>() on the digits of a Number token
ParseNumber(str) == ParseNat(str, 0)

\* the escaping {:?} applies to a &str
RECURSIVE EscapeDebug(_)
EscapeDebug(str) ==
    IF Len(str) = 0 THEN ""
    ELSE Bind(Head(str), LAMBDA c :
            (IF c = "\"" THEN "\\\"" ELSE IF c = "\\" THEN "\\\\"
             ELSE IF c = "\n" THEN "\\n" ELSE c) \o EscapeDebug(Tail(str)))

None == <<>>
Some(x) == <<x>>

(***************************************************************************)
(* scanner.rs                                                              *)
(***************************************************************************)
is_digit(c) == c \in {"0", "1", "2", "3", "4", "5", "6", "7", "8", "9"}

is_alpha(c) == c \in {"a", "b", "c", "d", "e", "f", "g", "h", "i", "j", "k", "l", "m",
                      "n", "o", "p", "q", "r", "s", "t", "u", "v", "w", "x", "y", "z",
                      "A", "B", "C", "D", "E", "F", "G", "H", "I", "J", "K", "L", "M",
                      "N", "O", "P", "Q", "R", "S", "T", "U", "V", "W", "X", "Y", "Z",
                      "_"}

is_whitespace(c) == c \in {" ", "\t", "\r", "\n"}

op_is_digit(op) == op # None /\ is_digit(op[1])

\* Scanner::new.  `start` is the offset of the slice self.start in source.
Scanner_new(source) ==
    [source |-> source, start |-> 0, current |-> 0, line |-> 1, crashed |-> FALSE]

is_at_end(s) == s.current >= Len(s.source) - s.start

\* char_at panics ("char_at called with out of index number") past the end
char_at_ok(s, idx) == s.start + idx < Len(s.source)

char_at(s, idx) == CharAt(s.source, s.start + idx)

peek(s) == IF is_at_end(s) THEN None ELSE Some(char_at(s, s.current))

\* peek_next reads one past current without checking that it exists
peek_next_ok(s) == is_at_end(s) \/ char_at_ok(s, s.current + 1)

peek_next(s) == IF is_at_end(s) THEN None ELSE Some(char_at(s, s.current + 1))

\* Scanner::advance, as the scanner after it ran
scanner_advance(s) ==
    IF char_at_ok(s, s.current) THEN [s EXCEPT !.current = s.current + 1]
    ELSE [s EXCEPT !.current = s.current + 1, !.crashed = TRUE]

make_token(s, typ) ==
    [typ |-> typ, str |-> Slice(s.source, s.start, s.start + s.current), line |-> s.line]

error_token(s, message) == [typ |-> "Error", str |-> message, line |-> s.line]

RECURSIVE skip_comment(_)
skip_comment(s) ==
    IF peek(s) # Some("\n") /\ ~is_at_end(s) THEN skip_comment(scanner_advance(s))
    ELSE s

RECURSIVE skip_whitespace(_)
skip_whitespace(s) ==
    IF s.crashed THEN s
    ELSE Bind(peek(s), LAMBDA c :
            IF c = Some("/") /\ ~peek_next_ok(s) THEN [s EXCEPT !.crashed = TRUE]
            ELSE IF c = Some("/") /\ peek_next(s) = Some("/")
                 THEN skip_whitespace(skip_comment(s))
            ELSE IF c = Some("\n")
                 THEN skip_whitespace(scanner_advance([s EXCEPT !.line = s.line + 1]))
            ELSE IF c # None /\ is_whitespace(c[1])
                 THEN skip_whitespace(scanner_advance(s))
            ELSE s)

check_keyword(s, start, length, rest, typ) ==
    IF s.current = start + length
       /\ Slice(s.source, s.start + start, s.start + start + length) = rest
    THEN typ ELSE "Identifier"

identifier_type(s) ==
    Bind(char_at(s, 0), LAMBDA c :
       CASE c = "a" -> check_keyword(s, 1, 2, "nd", "And")
         [] c = "c" -> check_keyword(s, 1, 4, "lass", "Class")
         [] c = "e" -> check_keyword(s, 1, 3, "lse", "Else")
         [] c = "i" -> check_keyword(s, 1, 1, "f", "If")
         [] c = "n" -> check_keyword(s, 1, 2, "il", "Nil")
         [] c = "o" -> check_keyword(s, 1, 1, "r", "Or")
         [] c = "p" -> check_keyword(s, 1, 4, "rint", "Print")
         [] c = "r" -> check_keyword(s, 1, 5, "eturn", "Return")
         [] c = "s" -> check_keyword(s, 1, 4, "uper", "Super")
         [] c = "v" -> check_keyword(s, 1, 2, "ar", "Var")
         [] c = "w" -> check_keyword(s, 1, 4, "hile", "While")
         [] c = "f" /\ s.current > 1 ->
                Bind(char_at(s, 1), LAMBDA d :
                   CASE d = "a" -> check_keyword(s, 2, 3, "lse", "False")
                     [] d = "o" -> check_keyword(s, 2, 1, "r", "For")
                     [] d = "u" -> check_keyword(s, 2, 1, "n", "Fun")
                     [] OTHER -> "Identifier")
         [] c = "t" /\ s.current > 1 ->
                Bind(char_at(s, 1), LAMBDA d :
                   CASE d = "h" -> check_keyword(s, 2, 2, "is", "This")
                     [] d = "r" -> check_keyword(s, 2, 2, "ue", "True")
                     [] OTHER -> "Identifier")
         [] OTHER -> "Identifier")

RECURSIVE scanner_identifier(_)
scanner_identifier(s) ==
    Bind(peek(s), LAMBDA c :
       IF c # None /\ (is_alpha(c[1]) \/ is_digit(c[1]))
       THEN scanner_identifier(scanner_advance(s))
       ELSE [scanner |-> s, token |-> make_token(s, identifier_type(s))])

RECURSIVE scan_digits(_)
scan_digits(s) == IF op_is_digit(peek(s)) THEN scan_digits(scanner_advance(s)) ELSE s

scanner_number(s) ==
    Bind(scan_digits(s), LAMBDA s1 :
       IF peek(s1) = Some(".") /\ ~peek_next_ok(s1)
       THEN [scanner |-> [s1 EXCEPT !.crashed = TRUE], token |-> make_token(s1, "Number")]
       ELSE IF peek(s1) = Some(".") /\ op_is_digit(peek_next(s1))
            THEN Bind(scan_digits(scanner_advance(s1)), LAMBDA s2 :
                    [scanner |-> s2, token |-> make_token(s2, "Number")])
       ELSE [scanner |-> s1, token |-> make_token(s1, "Number")])

RECURSIVE scan_string_body(_)
scan_string_body(s) ==
    IF peek(s) # Some("\"") /\ ~is_at_end(s)
    THEN scan_string_body(scanner_advance(
             IF peek(s) = Some("\n") THEN [s EXCEPT !.line = s.line + 1] ELSE s))
    ELSE s

scanner_string(s) ==
    Bind(scan_string_body(s), LAMBDA s1 :
       IF is_at_end(s1)
       THEN [scanner |-> s1, token |-> error_token(s1, "Unterminated string.")]
       ELSE Bind(scanner_advance(s1), LAMBDA s2 :
               [scanner |-> s2, token |-> make_token(s2, "String")]))

\* next_match: consumes the next character when it is `expected`
next_match(s, expected) == ~is_at_end(s) /\ char_at(s, s.current) = expected

one_or_two(s, two, one) ==
    IF next_match(s, "=")
    THEN Bind([s EXCEPT !.current = s.current + 1], LAMBDA s1 :
            [scanner |-> s1, token |-> make_token(s1, two)])
    ELSE [scanner |-> s, token |-> make_token(s, one)]

scan_token(s) ==
    Bind(skip_whitespace(s), LAMBDA s0 :
    Bind([s0 EXCEPT !.start = s0.start + s0.current, !.current = 0], LAMBDA s1 :
       IF s0.crashed THEN [scanner |-> s0, token |-> make_token(s1, "EOF")]
       ELSE IF is_at_end(s1) THEN [scanner |-> s1, token |-> make_token(s1, "EOF")]
       ELSE Bind(scanner_advance(s1), LAMBDA s2 :
            Bind(char_at(s1, 0), LAMBDA c :
            Bind([scanner |-> s2, token |-> make_token(s2, "Error")], LAMBDA single :
               CASE c = "(" -> [single EXCEPT !.token.typ = "LeftParen"]
                 [] c = ")" -> [single EXCEPT !.token.typ = "RightParen"]
                 [] c = "{" -> [single EXCEPT !.token.typ = "LeftBrace"]
                 [] c = "}" -> [single EXCEPT !.token.typ = "RightBrace"]
                 [] c = ";" -> [single EXCEPT !.token.typ = "Semicolon"]
                 [] c = "," -> [single EXCEPT !.token.typ = "Comma"]
                 [] c = "." -> [single EXCEPT !.token.typ = "Dot"]
                 [] c = "-" -> [single EXCEPT !.token.typ = "Minus"]
                 [] c = "+" -> [single EXCEPT !.token.typ = "Plus"]
                 [] c = "/" -> [single EXCEPT !.token.typ = "Slash"]
                 [] c = "*" -> [single EXCEPT !.token.typ = "Star"]
                 [] c = "!" -> one_or_two(s2, "BangEqual", "Bang")
                 [] c = "=" -> one_or_two(s2, "EqualEqual", "Equal")
                 [] c = "<" -> one_or_two(s2, "LessEqual", "Less")
                 [] c = ">" -> one_or_two(s2, "GreaterEqual", "Greater")
                 [] c = "\"" -> scanner_string(s2)
                 [] is_digit(c) -> scanner_number(s2)
                 [] is_alpha(c) -> scanner_identifier(s2)
                 [] OTHER -> [scanner |-> s2,
                              token |-> error_token(s2, "Unexpected character.")])))))

(***************************************************************************)
(* value.rs                                                                *)
(***************************************************************************)
Nil == [t |-> "Nil"]
Number(n) == [t |-> "Number", n |-> n]
Bool(b) == [t |-> "Bool", b |-> b]
Obj(ptr) == [t |-> "Obj", ptr |-> ptr]

\* is_falsey with the number 0 falsey as well
is_falsey_or_zero(v) == CASE v.t = "Nil" -> TRUE
                          [] v.t = "Bool" -> ~v.b
                          [] v.t = "Number" -> v.n = 0
                          [] OTHER -> FALSE

is_falsey(v) == CASE v.t = "Nil" -> TRUE
                  [] v.t = "Bool" -> ~v.b
                  [] OTHER -> FALSE

\* Value::eq
value_eq(a, b) == CASE a.t = "Nil" /\ b.t = "Nil" -> TRUE
                    [] a.t = "Number" /\ b.t = "Number" -> a.n = b.n
                    [] a.t = "Bool" /\ b.t = "Bool" -> a.b = b.b
                    [] a.t = "Obj" /\ b.t = "Obj" -> a.ptr = b.ptr
                    [] OTHER -> FALSE

(***************************************************************************)
(* chunk.rs                                                                *)
(***************************************************************************)
OpCode == [Return |-> 0, Constant |-> 1, Nil |-> 2, True |-> 3, False |-> 4, Pop |-> 5,
           GetLocal |-> 6, SetLocal |-> 7, GetGlobal |-> 8, DefineGlobal |-> 9,
           SetGlobal |-> 10, Equal |-> 11, Greater |-> 12, Less |-> 13, Add |-> 14,
           Subtract |-> 15, Multiply |-> 16, Divide |-> 17, Not |-> 18, Negate |-> 19,
           OpPrint |-> 20, JumpIfFalse |-> 21, Jump |-> 22, Loop |-> 23, Call |-> 24,
           Closure |-> 25]

Chunk_new == [code |-> <<>>, lines |-> <<>>, constants |-> <<>>]

\* Chunk::line, offset counted from 0
chunk_line(chunk, offset) == chunk.lines[offset + 1]

\* Chunk::write that records no line
chunk_write_code_only(chunk, byte, line) == [chunk EXCEPT !.code = Append(@, byte)]

chunk_write(chunk, byte, line) ==
    [chunk EXCEPT !.code = Append(@, byte), !.lines = Append(@, line)]

\* the largest index a u8 holds; add_constant panics on a larger one
U8_MAX == 255

\* Chunk::add_constant: the push happens before the index is narrowed to u8
add_constant(chunk, value) ==
    Bind([chunk EXCEPT !.constants = Append(@, value)], LAMBDA pushed :
    Bind(Len(pushed.constants) - 1, LAMBDA id :
       [chunk |-> pushed, id |-> id, panicked |-> id > U8_MAX]))

(***************************************************************************)
(* object.rs                                                               *)
(***************************************************************************)
ObjString(str) == [kind |-> "String", string |-> str]
ObjFunctionKind(fn) == [kind |-> "Function", function |-> fn]

ObjFunction_new == [arity |-> 0, name |-> None, chunk |-> Chunk_new]

ObjHeap_new == [heap |-> <<>>, strings |-> <<>>]

\* ObjPointer::borrow: the object a pointer (index from 0) names
borrow(h, ptr) == h.heap[ptr + 1]

allocate_obj(h, kind) ==
    [heap |-> [h EXCEPT !.heap = Append(@, kind)], ptr |-> Len(h.heap)]

allocate_string(h, str) ==
    Bind(allocate_obj(h, ObjString(str)), LAMBDA a :
       [heap |-> [a.heap EXCEPT !.strings = (str :> a.ptr) @@ @], ptr |-> a.ptr])

copy_string(h, str) ==
    IF str \in DOMAIN h.strings THEN [heap |-> h, ptr |-> h.strings[str]]
    ELSE allocate_string(h, str)

\* take_string without the lookup in the interning table
take_string_uninterned(h, str) == allocate_string(h, str)

take_string(h, str) ==
    IF str \in DOMAIN h.strings THEN [heap |-> h, ptr |-> h.strings[str]]
    ELSE allocate_string(h, str)

\* Obj::to_string
obj_to_string(obj) ==
    IF obj.kind = "String" THEN obj.string
    ELSE "<fn " \o (IF obj.function.name = None THEN "<script>" ELSE obj.function.name[1])
         \o ">"

\* ObjPointer::to_string
ptr_to_string(h, ptr) == obj_to_string(borrow(h, ptr)) \o " (" \o FormatNumber(ptr) \o ")"

\* Value::to_string
value_to_string(h, v) ==
    CASE v.t = "Number" -> FormatNumber(v.n)
      [] v.t = "Bool" -> IF v.b THEN "true" ELSE "false"
      [] v.t = "Nil" -> "nil"
      [] v.t = "Obj" -> ptr_to_string(h, v.ptr)

(***************************************************************************)
(* compiler.rs: precedence table, compiler contexts, parser primitives     *)
(***************************************************************************)
Precedence == [None |-> 0, Assignment |-> 1, Or |-> 2, And |-> 3, Equality |-> 4,
               Comparison |-> 5, Term |-> 6, Factor |-> 7, Unary |-> 8, Call |-> 9,
               Primary |-> 10]

ParseRule(prefix, infix, precedence) ==
    [prefix |-> prefix, infix |-> infix, precedence |-> precedence]

\* get_rule with the precedence of a unary operator for `!`, which has no
\* infix handler
get_rule_bang_unary(typ) ==
    CASE typ = "LeftParen" -> ParseRule(Some("grouping"), Some("call"), Precedence.Call)
      [] typ \in {"Minus", "Plus"} ->
             ParseRule(Some("unary"), Some("binary"), Precedence.Term)
      [] typ \in {"Slash", "Star"} -> ParseRule(None, Some("binary"), Precedence.Factor)
      [] typ = "Bang" -> ParseRule(Some("unary"), None, Precedence.Unary)
      [] typ \in {"BangEqual", "EqualEqual"} ->
             ParseRule(None, Some("binary"), Precedence.Equality)
      [] typ \in {"Greater", "GreaterEqual", "Less", "LessEqual"} ->
             ParseRule(None, Some("binary"), Precedence.Comparison)
      [] typ = "Identifier" -> ParseRule(Some("variable"), None, Precedence.None)
      [] typ = "String" -> ParseRule(Some("string"), None, Precedence.None)
      [] typ = "Number" -> ParseRule(Some("number"), None, Precedence.None)
      [] typ = "And" -> ParseRule(None, Some("and"), Precedence.And)
      [] typ = "Or" -> ParseRule(None, Some("or"), Precedence.Or)
      [] typ \in {"False", "Nil", "True"} -> ParseRule(Some("literal"), None, Precedence.None)
      [] OTHER -> ParseRule(None, None, Precedence.None)

\* get_rule; a handler is named by the Parser method it points to
get_rule(typ) ==
    CASE typ = "LeftParen" -> ParseRule(Some("grouping"), Some("call"), Precedence.Call)
      [] typ \in {"Minus", "Plus"} ->
             ParseRule(Some("unary"), Some("binary"), Precedence.Term)
      [] typ \in {"Slash", "Star"} -> ParseRule(None, Some("binary"), Precedence.Factor)
      [] typ = "Bang" -> ParseRule(Some("unary"), None, Precedence.None)
      [] typ \in {"BangEqual", "EqualEqual"} ->
             ParseRule(None, Some("binary"), Precedence.Equality)
      [] typ \in {"Greater", "GreaterEqual", "Less", "LessEqual"} ->
             ParseRule(None, Some("binary"), Precedence.Comparison)
      [] typ = "Identifier" -> ParseRule(Some("variable"), None, Precedence.None)
      [] typ = "String" -> ParseRule(Some("string"), None, Precedence.None)
      [] typ = "Number" -> ParseRule(Some("number"), None, Precedence.None)
      [] typ = "And" -> ParseRule(None, Some("and"), Precedence.And)
      [] typ = "Or" -> ParseRule(None, Some("or"), Precedence.Or)
      [] typ \in {"False", "Nil", "True"} -> ParseRule(Some("literal"), None, Precedence.None)
      [] OTHER -> ParseRule(None, None, Precedence.None)

Local(name, depth) == [name |-> name, depth |-> depth]

\* the capacity of Compiler::locals that add_local enforces
LOCALS_MAX == 256

\* Compiler::new: slot 0 is reserved under the empty name
Compiler_new(function_type, name) ==
    [function |-> [ObjFunction_new EXCEPT
                      !.name = IF function_type # "Script" THEN name ELSE None],
     function_type |-> function_type,
     locals |-> <<Local([typ |-> "Identifier", str |-> "", line |-> 0], 0)>>,
     scope_depth |-> 0]

\* the largest 1-based index i <= from with locals[i].name.str = str, or 0
last_local_named(locals, from, str) ==
    Bind({i \in 1..from : locals[i].name.str = str}, LAMBDA found :
       IF found = {} THEN 0 ELSE CHOOSE i \in found : \A j \in found : j <= i)

\* the smallest 1-based index i >= from with locals[i].name.str = str, or 0
RECURSIVE first_local_named(_, _, _)
first_local_named(locals, from, str) ==
    IF from > Len(locals) THEN 0
    ELSE IF locals[from].name.str = str THEN from
    ELSE first_local_named(locals, from + 1, str)

\* resolve_local scanning the locals from the oldest on
resolve_local_forward(compiler, name) ==
    Bind(first_local_named(compiler.locals, 1, name.str), LAMBDA i :
       IF i = 0 THEN [slot |-> None, error |-> None]
       ELSE [slot |-> Some(i - 1),
             error |-> IF compiler.locals[i].depth = -1
                       THEN Some("Cannot read local variable in its own initializer")
                       ELSE None])

\* resolve_local without the test of the depth
resolve_local_any_depth(compiler, name) ==
    Bind(last_local_named(compiler.locals, Len(compiler.locals), name.str), LAMBDA i :
       IF i = 0 THEN [slot |-> None, error |-> None]
       ELSE [slot |-> Some(i - 1), error |-> None])

\* Compiler::resolve_local: reverse scan, the slot is the index from 0
resolve_local(compiler, name) ==
    Bind(last_local_named(compiler.locals, Len(compiler.locals), name.str), LAMBDA i :
       IF i = 0 THEN [slot |-> None, error |-> None]
       ELSE [slot |-> Some(i - 1),
             error |-> IF compiler.locals[i].depth = -1
                       THEN Some("Cannot read local variable in its own initializer")
                       ELSE None])

NoopToken == [typ |-> "NOOP", str |-> "", line |-> 1]

\* the Parser that fn compile builds
Parser_new(source, heap, overflow_checks) ==
    [current |-> NoopToken, previous |-> NoopToken, scanner |-> Scanner_new(source),
     heap |-> heap, had_error |-> FALSE, panic_mode |-> FALSE,
     compiler |-> Compiler_new("Script", None),
     crashed |-> FALSE, overflow_checks |-> overflow_checks,
     stdout |-> <<>>, stderr |-> <<>>]

parser_panic(p) == [p EXCEPT !.crashed = TRUE]

error_at(p, token, message) ==
    IF p.panic_mode THEN p
    ELSE [p EXCEPT !.panic_mode = TRUE,
                   !.had_error = TRUE,
                   !.stderr = Append(@, "[line " \o FormatNumber(token.line) \o "] Error"
                                 \o (CASE token.typ = "EOF" -> " at end"
                                       [] token.typ = "Error" -> ""
                                       [] OTHER -> " at '" \o token.str \o "'")
                                 \o ": " \o message)]

error_at_current(p, message) == error_at(p, p.current, message)

error(p, message) == error_at(p, p.previous, message)

\* the loop of Parser::advance: pull tokens until one is not an Error token
RECURSIVE advance_scan(_)
advance_scan(p) ==
    Bind(scan_token(p.scanner), LAMBDA r :
    Bind([p EXCEPT !.scanner = r.scanner, !.current = r.token,
                        !.crashed = r.scanner.crashed], LAMBDA p1 :
       IF p1.crashed \/ r.token.typ # "Error" THEN p1
       ELSE advance_scan(error_at_current(p1, p1.current.str))))

\* advance that pulls no token from the scanner
advance_in_place(p) == IF p.crashed THEN p ELSE [p EXCEPT !.previous = p.current]

advance(p) ==
    IF p.crashed THEN p
    ELSE advance_scan([p EXCEPT !.previous = p.current, !.current = p.previous])

check(p, typ) == p.current.typ = typ

consume(p, typ, message) ==
    IF p.current.typ = typ THEN advance(p) ELSE error_at_current(p, message)

\* match_token: the parser afterwards; it returns check(p, typ) of the parser before
match_token(p, typ) == IF ~check(p, typ) THEN p ELSE advance(p)

emit_byte(p, byte) ==
    [p EXCEPT !.compiler.function.chunk = chunk_write(@, byte, p.previous.line)]

emit_opcode(p, opcode) == emit_byte(p, opcode)

emit_opcodes(p, opcode, opcode2) == emit_opcode(emit_opcode(p, opcode), opcode2)

emit_return(p) == emit_opcode(p, OpCode.Return)

emit_opcode_byte(p, opcode, byte) == emit_byte(emit_opcode(p, opcode), byte)

\* make_constant: the parser afterwards and the index returned
make_constant(p, value) ==
    Bind(add_constant(p.compiler.function.chunk, value), LAMBDA r :
       [p |-> [p EXCEPT !.compiler.function.chunk = r.chunk,
                        !.crashed = p.crashed \/ r.panicked],
        ret |-> r.id])

emit_constant(p, value) ==
    Bind(make_constant(p, value), LAMBDA r :
       IF r.p.crashed THEN r.p ELSE emit_opcode_byte(r.p, OpCode.Constant, r.ret))

code_len(p) == Len(p.compiler.function.chunk.code)

emit_jump(p, instruction) ==
    Bind(emit_byte(emit_byte(emit_opcode(p, instruction), 255), 255), LAMBDA p1 :
       [p |-> p1, ret |-> code_len(p1) - 2])

\* the largest distance a two-byte jump operand holds
JUMP_MAX == 65535

\* emit_loop with a distance that leaves out the last byte of the operand
emit_loop_short(p, loop_start) ==
    Bind(emit_opcode(p, OpCode.Loop), LAMBDA p1 :
    Bind(code_len(p1) - loop_start + 1, LAMBDA offset :
    Bind(IF offset > JUMP_MAX THEN error(p1, "Loop body too large") ELSE p1, LAMBDA p2 :
       emit_byte(emit_byte(p2, (offset \div 256) % 256), offset % 256))))

emit_loop(p, loop_start) ==
    Bind(emit_opcode(p, OpCode.Loop), LAMBDA p1 :
    Bind(code_len(p1) - loop_start + 2, LAMBDA offset :
    Bind(IF offset > JUMP_MAX THEN error(p1, "Loop body too large") ELSE p1, LAMBDA p2 :
       emit_byte(emit_byte(p2, (offset \div 256) % 256), offset % 256))))

\* patch_jump writing a one-byte distance
patch_jump_low_byte(p, offset) ==
    Bind(code_len(p) - offset - 2, LAMBDA jump :
    Bind(IF jump > JUMP_MAX THEN error(p, "Too much code to jump over") ELSE p, LAMBDA p1 :
       [p1 EXCEPT !.compiler.function.chunk.code[offset + 1] = 0,
                  !.compiler.function.chunk.code[offset + 2] = jump % 256]))

\* patch_jump refusing the largest distance as well
patch_jump_below_max(p, offset) ==
    Bind(code_len(p) - offset - 2, LAMBDA jump :
    Bind(IF jump >= JUMP_MAX THEN error(p, "Too much code to jump over") ELSE p, LAMBDA p1 :
       [p1 EXCEPT !.compiler.function.chunk.code[offset + 1] = (jump \div 256) % 256,
                  !.compiler.function.chunk.code[offset + 2] = jump % 256]))

patch_jump(p, offset) ==
    Bind(code_len(p) - offset - 2, LAMBDA jump :
    Bind(IF jump > JUMP_MAX THEN error(p, "Too much code to jump over") ELSE p, LAMBDA p1 :
       [p1 EXCEPT !.compiler.function.chunk.code[offset + 1] = (jump \div 256) % 256,
                  !.compiler.function.chunk.code[offset + 2] = jump % 256]))

begin_scope(p) == [p EXCEPT !.compiler.scope_depth = @ + 1]

\* the locals that the loop of end_scope pops: those after the last one with
\* a depth of scope_depth or less
scope_locals(locals, scope_depth) ==
    Bind({0} \cup {j \in 1..Len(locals) : locals[j].depth <= scope_depth}, LAMBDA kept :
       Len(locals) - CHOOSE i \in kept : \A j \in kept : j <= i)

\* k turns of the loop of end_scope, the first half of them before the second
RECURSIVE end_scope_pop(_, _)
end_scope_pop(p, k) ==
    IF k = 0 THEN p
    ELSE IF k = 1
         THEN [emit_opcode(p, OpCode.Pop) EXCEPT
                  !.compiler.locals = SubSeq(@, 1, Len(@) - 1)]
    ELSE Bind(end_scope_pop(p, k \div 2), LAMBDA half :
            end_scope_pop(half, k - k \div 2))

end_scope(p) ==
    Bind([p EXCEPT !.compiler.scope_depth = @ - 1], LAMBDA p1 :
       end_scope_pop(p1, scope_locals(p1.compiler.locals, p1.compiler.scope_depth)))

\* end_compiler: the finished function is compiler.function of the result
end_compiler(p) == emit_return(p)

identifier_constant(p, name) ==
    Bind(copy_string(p.heap, name.str), LAMBDA c :
       make_constant([p EXCEPT !.heap = c.heap], Obj(c.ptr)))

add_local(p, name) ==
    IF Len(p.compiler.locals) = LOCALS_MAX
    THEN error(p, "Too many local variables in function")
    ELSE [p EXCEPT !.compiler.locals = Append(@, Local(name, -1))]

\* the scan of declare_variable going on into the enclosing scopes
declared_in_function(locals, i, str, scope_depth) ==
    \E k \in 1..i : locals[k].name.str = str

\* the scan of declare_variable from locals[i] down: it finds str at some k
\* before it meets a local of an enclosing scope
declared_in_scope(locals, i, str, scope_depth) ==
    \E k \in 1..i :
        /\ locals[k].name.str = str
        /\ \A j \in k..i : locals[j].depth = -1 \/ locals[j].depth >= scope_depth

declare_variable(p) ==
    IF p.compiler.scope_depth = 0 THEN p
    ELSE Bind(p.previous, LAMBDA name :
         Bind(declared_in_scope(p.compiler.locals, Len(p.compiler.locals),
                                         name.str, p.compiler.scope_depth), LAMBDA exists :
         Bind(IF exists
                   THEN error(p, "Variable with this name already declared in this scope")
                   ELSE p, LAMBDA p1 :
            add_local(p1, name))))

parse_variable(p, error_message) ==
    Bind(declare_variable(consume(p, "Identifier", error_message)), LAMBDA p1 :
       IF p1.compiler.scope_depth > 0 THEN [p |-> p1, ret |-> 0]
       ELSE identifier_constant(p1, p1.previous))

mark_initialized(p) ==
    IF p.compiler.scope_depth = 0 THEN p
    ELSE [p EXCEPT !.compiler.locals[Len(p.compiler.locals)].depth = p.compiler.scope_depth]

define_variable(p, global) ==
    IF p.compiler.scope_depth > 0 THEN mark_initialized(p)
    ELSE emit_opcode_byte(p, OpCode.DefineGlobal, global)

(***************************************************************************)
(* compiler.rs: expressions, statements and declarations                   *)
(***************************************************************************)
RECURSIVE parse_precedence(_, _), infix_loop(_, _, _), apply_rule(_, _, _),
          argument_iterations(_, _), argument_runs(_, _), declaration(_), statement(_),
          block(_), block_iterations(_, _), block_runs(_, _), function(_, _), parameters(_)

expression(p) == parse_precedence(p, Precedence.Assignment)

\* Parser::number; the model's literals are the integer ones
number(p, can_assign) == emit_constant(p, Number(ParseNumber(p.previous.str)))

grouping(p, can_assign) ==
    consume(expression(p), "RightParen", "Expected ')' after expression")

unary(p, can_assign) ==
    Bind(p.previous.typ, LAMBDA operator_type :
    Bind(parse_precedence(p, Precedence.Unary), LAMBDA p1 :
       CASE operator_type = "Minus" -> emit_opcode(p1, OpCode.Negate)
         [] operator_type = "Bang" -> emit_opcode(p1, OpCode.Not)
         [] operator_type = "Plus" -> p1))

\* binary with the right operand parsed at the operator's own level
binary_same_level(p, can_assign) ==
    Bind(p.previous.typ, LAMBDA operator_type :
    Bind(get_rule(operator_type), LAMBDA rule :
    Bind(parse_precedence(p, rule.precedence), LAMBDA p1 :
       CASE operator_type = "Plus" -> emit_opcode(p1, OpCode.Add)
         [] operator_type = "Minus" -> emit_opcode(p1, OpCode.Subtract)
         [] operator_type = "Star" -> emit_opcode(p1, OpCode.Multiply)
         [] operator_type = "Slash" -> emit_opcode(p1, OpCode.Divide)
         [] operator_type = "BangEqual" -> emit_opcodes(p1, OpCode.Equal, OpCode.Not)
         [] operator_type = "EqualEqual" -> emit_opcode(p1, OpCode.Equal)
         [] operator_type = "Greater" -> emit_opcode(p1, OpCode.Greater)
         [] operator_type = "GreaterEqual" -> emit_opcodes(p1, OpCode.Less, OpCode.Not)
         [] operator_type = "Less" -> emit_opcode(p1, OpCode.Less)
         [] operator_type = "LessEqual" -> emit_opcodes(p1, OpCode.Greater, OpCode.Not))))

binary(p, can_assign) ==
    Bind(p.previous.typ, LAMBDA operator_type :
    Bind(get_rule(operator_type), LAMBDA rule :
    Bind(IF rule.precedence + 1 > Precedence.Primary THEN parser_panic(p)
              ELSE parse_precedence(p, rule.precedence + 1), LAMBDA p1 :
       CASE operator_type = "Plus" -> emit_opcode(p1, OpCode.Add)
         [] operator_type = "Minus" -> emit_opcode(p1, OpCode.Subtract)
         [] operator_type = "Star" -> emit_opcode(p1, OpCode.Multiply)
         [] operator_type = "Slash" -> emit_opcode(p1, OpCode.Divide)
         [] operator_type = "BangEqual" -> emit_opcodes(p1, OpCode.Equal, OpCode.Not)
         [] operator_type = "EqualEqual" -> emit_opcode(p1, OpCode.Equal)
         [] operator_type = "Greater" -> emit_opcode(p1, OpCode.Greater)
         [] operator_type = "GreaterEqual" -> emit_opcodes(p1, OpCode.Less, OpCode.Not)
         [] operator_type = "Less" -> emit_opcode(p1, OpCode.Less)
         [] operator_type = "LessEqual" -> emit_opcodes(p1, OpCode.Greater, OpCode.Not))))

literal(p, can_assign) ==
    CASE p.previous.typ = "False" -> emit_opcode(p, OpCode.False)
      [] p.previous.typ = "True" -> emit_opcode(p, OpCode.True)
      [] p.previous.typ = "Nil" -> emit_opcode(p, OpCode.Nil)

\* Parser::string: the literal without its quotes is interned
string(p, can_assign) ==
    Bind(copy_string(p.heap, Slice(p.previous.str, 1, Len(p.previous.str) - 1)), LAMBDA c :
       emit_constant([p EXCEPT !.heap = c.heap], Obj(c.ptr)))

named_variable(p, name, can_assign) ==
    Bind(resolve_local(p.compiler, name), LAMBDA r :
    Bind(IF r.error # None THEN error(p, r.error[1]) ELSE p, LAMBDA p1 :
    Bind(identifier_constant(p1, name), LAMBDA ic :
    Bind(r.slot # None, LAMBDA is_local :
    Bind(IF is_local THEN r.slot[1] ELSE ic.ret, LAMBDA arg :
    Bind(IF is_local THEN p1 ELSE ic.p, LAMBDA p2 :
    Bind(IF is_local THEN OpCode.GetLocal ELSE OpCode.GetGlobal, LAMBDA get_opt :
    Bind(IF is_local THEN OpCode.SetLocal ELSE OpCode.SetGlobal, LAMBDA set_opt :
       IF can_assign /\ check(p2, "Equal")
       THEN emit_opcode_byte(expression(advance(p2)), set_opt, arg)
       ELSE emit_opcode_byte(p2, get_opt, arg)))))))))

variable(p, can_assign) == named_variable(p, p.previous, can_assign)

and(p, can_assign) ==
    Bind(emit_jump(p, OpCode.JumpIfFalse), LAMBDA end_jump :
    Bind(parse_precedence(emit_opcode(end_jump.p, OpCode.Pop), Precedence.And), LAMBDA p1 :
       patch_jump(p1, end_jump.ret)))

or(p, can_assign) ==
    Bind(emit_jump(p, OpCode.JumpIfFalse), LAMBDA else_jump :
    Bind(emit_jump(else_jump.p, OpCode.Jump), LAMBDA end_jump :
    Bind(emit_opcode(patch_jump(end_jump.p, else_jump.ret), OpCode.Pop), LAMBDA p1 :
    Bind(parse_precedence(p1, Precedence.Or), LAMBDA p2 :
       patch_jump(p2, end_jump.ret)))))

\* one pass of the loop of argument_list; arg_count (ret) is a u8, so 255 + 1
\* panics under overflow checks and wraps to 0 without them
argument_iteration(s) ==
    IF s.done \/ s.p.crashed THEN s
    ELSE Bind(expression(s.p), LAMBDA p1 :
         Bind(IF s.ret = U8_MAX
                   THEN error(p1, "Cannot have more than 255 arguments.") ELSE p1, LAMBDA p2 :
         Bind(IF s.ret = U8_MAX /\ s.p.overflow_checks THEN parser_panic(p2) ELSE p2, LAMBDA p3 :
         Bind((s.ret + 1) % (U8_MAX + 1), LAMBDA next_count :
            IF check(p3, "Comma") THEN [p |-> advance(p3), ret |-> next_count, done |-> FALSE]
            ELSE [p |-> p3, ret |-> next_count, done |-> TRUE]))))

\* k passes of the loop, the first half of them before the second
argument_iterations(s, k) ==
    IF k = 0 \/ s.done \/ s.p.crashed THEN s
    ELSE IF k = 1 THEN argument_iteration(s)
    ELSE Bind(argument_iterations(s, k \div 2), LAMBDA half :
         IF half.done \/ half.p.crashed THEN half
         ELSE argument_iterations(half, k - k \div 2))

\* the passes of the loop in runs of k, 2k, 4k, ... passes, until it ends
argument_runs(s, k) ==
    IF s.done \/ s.p.crashed THEN s
    ELSE argument_runs(argument_iterations(s, k), 2 * k)

argument_loop(p, arg_count) ==
    Bind(argument_runs([p |-> p, ret |-> arg_count, done |-> FALSE], 1), LAMBDA s :
       [p |-> s.p, ret |-> s.ret])

argument_list(p) ==
    Bind(IF ~check(p, "RightParen") THEN argument_loop(p, 0) ELSE [p |-> p, ret |-> 0], LAMBDA r :
       [p |-> consume(r.p, "RightParen", "Expect ')' after arguments"), ret |-> r.ret])

parser_call(p, can_assign) ==
    Bind(argument_list(p), LAMBDA r :
       emit_opcode_byte(r.p, OpCode.Call, r.ret))

\* the call of a prefix or infix handler of the rule table
apply_rule(p, rule, can_assign) ==
    CASE rule = "grouping" -> grouping(p, can_assign)
      [] rule = "call" -> parser_call(p, can_assign)
      [] rule = "unary" -> unary(p, can_assign)
      [] rule = "binary" -> binary(p, can_assign)
      [] rule = "variable" -> variable(p, can_assign)
      [] rule = "string" -> string(p, can_assign)
      [] rule = "number" -> number(p, can_assign)
      [] rule = "and" -> and(p, can_assign)
      [] rule = "or" -> or(p, can_assign)
      [] rule = "literal" -> literal(p, can_assign)

\* the while loop of parse_precedence
infix_loop(p, precedence, can_assign) ==
    IF p.crashed THEN p
    ELSE IF precedence <= get_rule(p.current.typ).precedence
    THEN Bind(advance(p), LAMBDA p1 :
         Bind(get_rule(p1.previous.typ).infix, LAMBDA infix_rule :
            IF infix_rule = None THEN parser_panic(p1)
            ELSE infix_loop(apply_rule(p1, infix_rule[1], can_assign), precedence, can_assign)))
    ELSE p

\* parse_precedence without the test for an `=` left over
parse_precedence_any_target(p, precedence) ==
    IF p.crashed THEN p
    ELSE Bind(advance(p), LAMBDA p1 :
         Bind(get_rule(p1.previous.typ).prefix, LAMBDA prefix_rule :
         Bind(precedence <= Precedence.Assignment, LAMBDA can_assign :
            IF prefix_rule = None THEN error(p1, "Expect expression")
            ELSE infix_loop(apply_rule(p1, prefix_rule[1], can_assign),
                            precedence, can_assign))))

parse_precedence(p, precedence) ==
    IF p.crashed THEN p
    ELSE Bind(advance(p), LAMBDA p1 :
         Bind(get_rule(p1.previous.typ).prefix, LAMBDA prefix_rule :
         Bind(precedence <= Precedence.Assignment, LAMBDA can_assign :
            IF prefix_rule = None THEN error(p1, "Expect expression")
            ELSE Bind(infix_loop(apply_rule(p1, prefix_rule[1], can_assign),
                                 precedence, can_assign), LAMBDA p2 :
                    IF can_assign /\ check(p2, "Equal")
                    THEN error(advance(p2), "Invalid assignment target")
                    ELSE p2))))

var_declaration(p) ==
    Bind(parse_variable(p, "Expect variable name"), LAMBDA global :
    Bind(IF check(global.p, "Equal") THEN expression(advance(global.p))
              ELSE emit_opcode(global.p, OpCode.Nil), LAMBDA p1 :
    Bind(consume(p1, "Semicolon", "Expect ';' after variable declaration"), LAMBDA p2 :
       define_variable(p2, global.ret))))

expression_statement(p) ==
    emit_opcode(consume(expression(p), "Semicolon", "Expect ';' after expression"),
                OpCode.Pop)

print_statement(p) ==
    emit_opcode(consume(expression(p), "Semicolon", "Expect ';' after value"),
                OpCode.OpPrint)

if_statement(p) ==
    Bind(consume(p, "LeftParen", "Expect '(' after 'if'"), LAMBDA p1 :
    Bind(consume(expression(p1), "RightParen", "Expect ')' after condition"), LAMBDA p2 :
    Bind(emit_jump(p2, OpCode.JumpIfFalse), LAMBDA then_jump :
    Bind(statement(emit_opcode(then_jump.p, OpCode.Pop)), LAMBDA p3 :
    Bind(emit_jump(p3, OpCode.Jump), LAMBDA else_jump :
    Bind(emit_opcode(patch_jump(else_jump.p, then_jump.ret), OpCode.Pop), LAMBDA p4 :
    Bind(IF check(p4, "Else") THEN statement(advance(p4)) ELSE p4, LAMBDA p5 :
       patch_jump(p5, else_jump.ret))))))))

while_statement(p) ==
    Bind(code_len(p), LAMBDA loop_start :
    Bind(consume(p, "LeftParen", "Expect '(' after while"), LAMBDA p1 :
    Bind(consume(expression(p1), "RightParen", "Expect ')' after condition"), LAMBDA p2 :
    Bind(emit_jump(p2, OpCode.JumpIfFalse), LAMBDA exit_jump :
    Bind(statement(emit_opcode(exit_jump.p, OpCode.Pop)), LAMBDA p3 :
    Bind(emit_loop(p3, loop_start), LAMBDA p4 :
       emit_opcode(patch_jump(p4, exit_jump.ret), OpCode.Pop)))))))

\* the condition clause of for_statement: the parser afterwards and the exit
\* jump, which is read only when there is a condition
for_condition(p) ==
    IF ~check(p, "Semicolon")
    THEN emit_jump(consume(expression(p), "Semicolon", "Expect ';' after loop condition"),
                   OpCode.JumpIfFalse)
    ELSE [p |-> advance(p), ret |-> 0]

\* the increment clause of for_statement, when there is one: the parser
\* afterwards and the new loop_start
for_increment_clause(p, loop_start) ==
    Bind(emit_jump(p, OpCode.Jump), LAMBDA body_jump :
    Bind(consume(emit_opcode(expression(body_jump.p), OpCode.Pop),
                 "RightParen", "Expect ')' after for clauses"), LAMBDA p2 :
       [p |-> patch_jump(emit_loop(p2, loop_start), body_jump.ret),
        ret |-> code_len(body_jump.p)]))

for_increment(p, loop_start) ==
    IF ~check(p, "RightParen") THEN for_increment_clause(p, loop_start)
    ELSE [p |-> advance(p), ret |-> loop_start]

\* the body of for_statement, the jump back and the landing of the exit jump
for_body(increment, has_condition, exit_jump) ==
    Bind(emit_loop(statement(increment.p), increment.ret), LAMBDA p5 :
       IF has_condition THEN emit_opcode(patch_jump(p5, exit_jump), OpCode.Pop) ELSE p5)

\* for_statement from its condition clause on; loop_start is the code length
\* after the initializer
for_clauses(p, loop_start) ==
    Bind(for_condition(p), LAMBDA cond :
       for_body(for_increment(cond.p, loop_start), ~check(p, "Semicolon"), cond.ret))

for_statement(p) ==
    Bind(consume(begin_scope(p), "LeftParen", "Expect '(' after 'for'"), LAMBDA p1 :
    Bind(IF check(p1, "Semicolon") THEN advance(p1)
              ELSE IF check(p1, "Var") THEN var_declaration(advance(p1))
              ELSE expression_statement(p1), LAMBDA p2 :
       end_scope(for_clauses(p2, code_len(p2)))))

statement(p) ==
    IF p.crashed THEN p
    ELSE CASE check(p, "Print") -> print_statement(advance(p))
           [] check(p, "For") -> for_statement(advance(p))
           [] check(p, "If") -> if_statement(advance(p))
           [] check(p, "While") -> while_statement(advance(p))
           [] check(p, "LeftBrace") -> end_scope(block(begin_scope(advance(p))))
           [] OTHER -> expression_statement(p)

\* one pass of the loop of Parser::block
block_iteration(s) ==
    IF s.done \/ s.p.crashed THEN s
    ELSE IF ~check(s.p, "RightBrace") /\ ~check(s.p, "EOF")
         THEN [p |-> declaration(s.p), done |-> FALSE]
    ELSE [s EXCEPT !.done = TRUE]

\* k passes of the loop, the first half of them before the second
block_iterations(s, k) ==
    IF k = 0 \/ s.done \/ s.p.crashed THEN s
    ELSE IF k = 1 THEN block_iteration(s)
    ELSE Bind(block_iterations(s, k \div 2), LAMBDA half :
         IF half.done \/ half.p.crashed THEN half
         ELSE block_iterations(half, k - k \div 2))

\* the passes of the loop in runs of k, 2k, 4k, ... passes, until it ends
block_runs(s, k) ==
    IF s.done \/ s.p.crashed THEN s
    ELSE block_runs(block_iterations(s, k), 2 * k)

block(p) ==
    Bind(block_runs([p |-> p, done |-> FALSE], 1).p, LAMBDA p1 :
       IF p1.crashed THEN p1 ELSE consume(p1, "RightBrace", "Expect '{' after block"))

\* one pass of the parameter loop of Parser::function, up to its match_token
parameter_iteration(p) ==
    Bind([p EXCEPT !.compiler.function.arity = @ + 1], LAMBDA p1 :
    Bind(IF p1.compiler.function.arity > U8_MAX
              THEN error_at_current(p1, "Cannot have more than 255 parameters")
              ELSE p1, LAMBDA p2 :
    Bind(parse_variable(p2, "Expect parameter name"), LAMBDA param_constant :
       define_variable(param_constant.p, param_constant.ret))))

\* the parameter loop of Parser::function
parameters(p) ==
    IF p.crashed THEN p
    ELSE Bind(parameter_iteration(p), LAMBDA p3 :
            IF check(p3, "Comma") THEN parameters(advance(p3)) ELSE p3)

\* println!("{:?}", token)
token_debug(token) ==
    "Token { typ: " \o token.typ \o ", str: \"" \o EscapeDebug(token.str)
    \o "\", line: " \o FormatNumber(token.line) \o " }"

\* Parser::function up to the '{' of the body, the new compiler context
\* starting from the locals of the enclosing one
function_begin_enclosed(p, function_type) ==
    Bind(begin_scope([p EXCEPT
                  !.compiler = [Compiler_new(function_type, Some(p.previous.str))
                                   EXCEPT !.locals = p.compiler.locals]]), LAMBDA p1 :
    Bind(consume(p1, "LeftParen", "Expect '(' after function name"), LAMBDA p2 :
    Bind(IF ~check(p2, "RightParen") THEN parameters(p2) ELSE p2, LAMBDA p3 :
    Bind([p3 EXCEPT !.stdout = Append(@, token_debug(p3.current))], LAMBDA p4 :
    Bind(consume(p4, "RightParen", "Expect ')' after parameters"), LAMBDA p5 :
       consume(p5, "LeftBrace", "Expect '{' before function body"))))))

\* Parser::function up to the '{' of the body: a new compiler context, the
\* scope of the function, the parameters
function_begin(p, function_type) ==
    Bind(begin_scope([p EXCEPT
                  !.compiler = Compiler_new(function_type, Some(p.previous.str))]), LAMBDA p1 :
    Bind(consume(p1, "LeftParen", "Expect '(' after function name"), LAMBDA p2 :
    Bind(IF ~check(p2, "RightParen") THEN parameters(p2) ELSE p2, LAMBDA p3 :
    Bind([p3 EXCEPT !.stdout = Append(@, token_debug(p3.current))], LAMBDA p4 :
    Bind(consume(p4, "RightParen", "Expect ')' after parameters"), LAMBDA p5 :
       consume(p5, "LeftBrace", "Expect '{' before function body"))))))

\* Parser::function after end_compiler with the context of the function left
\* in place
function_end_in_place(p7, enclosing) ==
    Bind(allocate_obj(p7.heap, ObjFunctionKind(p7.compiler.function)), LAMBDA a :
    Bind(make_constant([p7 EXCEPT !.heap = a.heap], Obj(a.ptr)),
         LAMBDA function_constant :
       emit_opcode_byte(function_constant.p, OpCode.Constant, function_constant.ret)))

\* Parser::function after end_compiler: the enclosing context is put back and
\* the function becomes a constant of the enclosing chunk
function_end(p7, enclosing) ==
    Bind(allocate_obj(p7.heap, ObjFunctionKind(p7.compiler.function)), LAMBDA a :
    Bind(make_constant([p7 EXCEPT !.compiler = enclosing, !.heap = a.heap], Obj(a.ptr)),
         LAMBDA function_constant :
       emit_opcode_byte(function_constant.p, OpCode.Constant, function_constant.ret)))

\* Parser::function: the enclosing compiler context is swapped out and back
function(p, function_type) ==
    function_end(end_compiler(block(function_begin(p, function_type))), p.compiler)

fun_declaration(p) ==
    Bind(parse_variable(p, "Expect function name"), LAMBDA global :
    Bind(function(mark_initialized(global.p), "Function"), LAMBDA p1 :
       define_variable(p1, global.ret)))

RECURSIVE synchronize_loop(_)
synchronize_loop(p) ==
    IF p.crashed \/ p.current.typ = "EOF" THEN p
    ELSE IF p.previous.typ = "Semicolon" THEN p
    ELSE IF p.current.typ \in {"Class", "Fun", "Var", "For", "If", "While", "Print", "Return"}
         THEN p
    ELSE synchronize_loop(advance(p))

synchronize(p) == synchronize_loop([p EXCEPT !.panic_mode = FALSE])

declaration(p) ==
    IF p.crashed THEN p
    ELSE Bind(CASE check(p, "Fun") -> fun_declaration(advance(p))
                     [] check(p, "Var") -> var_declaration(advance(p))
                     [] OTHER -> statement(p), LAMBDA p1 :
            IF p1.panic_mode THEN synchronize(p1) ELSE p1)

\* one turn of `while !self.match_token(TokenType::EOF) { self.declaration(); }`;
\* done once the match succeeded
compile_iteration(s) ==
    IF s.done \/ s.p.crashed THEN s
    ELSE IF check(s.p, "EOF") THEN [p |-> advance(s.p), done |-> TRUE]
    ELSE [p |-> declaration(s.p), done |-> FALSE]

\* k turns of the loop, split in halves to keep the evaluation shallow
RECURSIVE compile_iterations(_, _)
compile_iterations(s, k) ==
    IF k = 0 THEN s
    ELSE IF k = 1 THEN compile_iteration(s)
    ELSE Bind(compile_iterations(s, k \div 2), LAMBDA half :
            IF half.done \/ half.p.crashed THEN half
            ELSE compile_iterations(half, k - k \div 2))

\* the turns of the loop in runs of k, 2k, 4k, ... turns, until it ends
RECURSIVE compile_runs(_, _)
compile_runs(s, k) ==
    IF s.done \/ s.p.crashed THEN s
    ELSE compile_runs(compile_iterations(s, k), 2 * k)

\* the whole loop
compile_loop(p) == compile_runs([p |-> p, done |-> FALSE], 1).p

\* compile_result that hands out the function although errors were reported
compile_result_ignoring_errors(p) ==
    [ok |-> TRUE, crashed |-> p.crashed, function |-> p.compiler.function,
     heap |-> p.heap, stdout |-> p.stdout, stderr |-> p.stderr]

\* what Parser::compile returns for the parser that reached the end of input
compile_result(p) ==
    [ok |-> ~p.had_error, crashed |-> p.crashed, function |-> p.compiler.function,
     heap |-> p.heap, stdout |-> p.stdout, stderr |-> p.stderr]

parser_compile(p) == compile_result(end_compiler(compile_loop(advance(p))))

\* fn compile(source, heap)
compile(source, heap, overflow_checks) ==
    parser_compile(Parser_new(source, heap, overflow_checks))

\* str written n times
RECURSIVE Repeat(_, _)
Repeat(str, n) ==
    IF n = 0 THEN ""
    ELSE IF n = 1 THEN str
    ELSE Repeat(str, n \div 2) \o Repeat(str, n - n \div 2)

\* the parser at the `}` that ends the body of the source
\*   <keyword> (<cond>) { nil; ... nil; !nil; }
\* of n statements `nil; ` and, if odd, one `!nil; `: the condition has emitted
\* True or False (literal), if_statement or while_statement the JumpIfFalse
\* with its placeholder and the Pop, statement has begun the scope of the
\* block, and each `nil; ` has emitted Nil and Pop, the `!nil; ` Nil, Not and
\* Pop (literal, unary, expression_statement), all on line 1
parser_at_body_end(keyword, cond, n, odd, heap, overflow_checks) ==
    Bind(keyword \o " (" \o cond \o ") { " \o Repeat("nil; ", n)
         \o (IF odd THEN "!nil; " ELSE "") \o "}", LAMBDA source :
    Bind(<<IF cond = "true" THEN OpCode.True ELSE OpCode.False,
           OpCode.JumpIfFalse, 255, 255, OpCode.Pop>>
         \o [i \in 1..(2 * n) |-> IF i % 2 = 1 THEN OpCode.Nil ELSE OpCode.Pop]
         \o (IF odd THEN <<OpCode.Nil, OpCode.Not, OpCode.Pop>> ELSE <<>>), LAMBDA code :
       [Parser_new(source, heap, overflow_checks) EXCEPT
           !.previous = IF n = 0 /\ ~odd THEN [typ |-> "LeftBrace", str |-> "{", line |-> 1]
                        ELSE [typ |-> "Semicolon", str |-> ";", line |-> 1],
           !.current = [typ |-> "RightBrace", str |-> "}", line |-> 1],
           !.scanner.start = Len(source) - 1,
           !.scanner.current = 1,
           !.compiler.scope_depth = 1,
           !.compiler.function.chunk.code = code,
           !.compiler.function.chunk.lines = [i \in 1..Len(code) |-> 1]]))

\* the end of the block statement: Parser::block after its loop, and end_scope
block_end(p) == end_scope(consume(p, "RightBrace", "Expect '{' after block"))

\* Parser::if_statement after the statement of its then branch, when no
\* `else` follows
if_statement_end(p, then_jump) ==
    Bind(emit_jump(p, OpCode.Jump), LAMBDA else_jump :
    Bind(emit_opcode(patch_jump(else_jump.p, then_jump), OpCode.Pop), LAMBDA p4 :
       patch_jump(p4, else_jump.ret)))

\* Parser::while_statement after the statement of its body
while_statement_end(p, loop_start, exit_jump) ==
    Bind(emit_loop(p, loop_start), LAMBDA p4 :
       emit_opcode(patch_jump(p4, exit_jump), OpCode.Pop))

\* the end of Parser::declaration, after the declaration or statement
declaration_end(p) == IF p.panic_mode THEN synchronize(p) ELSE p

\* Parser::declaration and Parser::compile after the last statement of the
\* source: the loop of compile matches EOF and ends
compile_end(p) == compile_result(end_compiler(advance(declaration_end(p))))

\* fn compile of the source of parser_at_body_end
compile_from_body_end(keyword, cond, n, odd, heap, overflow_checks) ==
    Bind(block_end(parser_at_body_end(keyword, cond, n, odd, heap, overflow_checks)), LAMBDA p :
       compile_end(IF keyword = "if" THEN if_statement_end(p, 2)
                   ELSE while_statement_end(p, 0, 2)))

(***************************************************************************)
(* vm.rs.  A vm record holds the fields of struct VM, the lines written to *)
(* standard output, and `crashed` once the process has panicked.           *)
(***************************************************************************)
FRAMES_MAX == 64
STACK_MAX == FRAMES_MAX * 255

CallFrame(fn, ip, fp) == [function |-> fn, ip |-> ip, fp |-> fp]

NoError == [message |-> "", call_stack |-> <<>>]

vm_panic(vm) == [vm EXCEPT !.crashed = TRUE]

\* stack[i] of the fixed array, which VM::new fills with Nil; `stack` keeps the
\* prefix of the array that has been written
stack_get(vm, i) == IF i < Len(vm.stack) THEN vm.stack[i + 1] ELSE Nil

stack_set(vm, i, value) ==
    IF i < Len(vm.stack) THEN [vm EXCEPT !.stack[i + 1] = value]
    ELSE [vm EXCEPT !.stack = @ \o [k \in 1..(i - Len(@)) |-> Nil] \o <<value>>]

push(vm, value) ==
    IF vm.crashed \/ vm.stack_top >= STACK_MAX THEN vm_panic(vm)
    ELSE [stack_set(vm, vm.stack_top, value) EXCEPT !.stack_top = @ + 1]

\* VM::pop: the vm afterwards; the value returned is vm_top of the vm before
pop(vm) ==
    IF vm.crashed \/ vm.stack_top = 0 THEN vm_panic(vm)
    ELSE [vm EXCEPT !.stack_top = @ - 1]

vm_peek_ok(vm, distance) == vm.stack_top - 1 - distance >= 0

vm_peek(vm, distance) == stack_get(vm, vm.stack_top - 1 - distance)

vm_top(vm) == vm_peek(vm, 0)

\* frame!(vm)
frame(vm) == vm.frames[Len(vm.frames)]

\* CallFrame::function
frame_function(vm, fr) == borrow(vm.heap, fr.function).function

generate_call_stack(vm) ==
    [k \in 1..Len(vm.frames) |->
        Bind(vm.frames[Len(vm.frames) + 1 - k], LAMBDA fr :
        Bind(frame_function(vm, fr), LAMBDA fn :
           <<chunk_line(fn.chunk, fr.ip - 1),
             IF fn.name = None THEN "script" ELSE fn.name[1] \o "()">>))]

\* the index arithmetic of generate_call_stack and runtime_error! stays in range
call_stack_ok(vm) ==
    /\ Len(vm.frames) > 0
    /\ \A k \in 1..Len(vm.frames) :
          /\ vm.frames[k].ip >= 1
          /\ vm.frames[k].ip - 1 < Len(frame_function(vm, vm.frames[k]).chunk.lines)

\* what one pass of the loop of VM::run, or a call made by interpret, leaves:
\* "next" to go on, "ok" for return Ok(()), "error" for return Err(RuntimeError)
Continue(vm) == [vm |-> vm, outcome |-> IF vm.crashed THEN "panic" ELSE "next",
                 error |-> NoError]

ReturnOk(vm) == [vm |-> vm, outcome |-> "ok", error |-> NoError]

\* runtime_error!
runtime_error(vm, message) ==
    IF vm.crashed \/ ~call_stack_ok(vm) THEN Continue(vm_panic(vm))
    ELSE [vm |-> vm, outcome |-> "error",
          error |-> [message |-> message, call_stack |-> generate_call_stack(vm)]]

\* call with the two counts of the arity message exchanged
call_counts_exchanged(vm, fn, arg_count, arity) ==
    IF arg_count # arity
    THEN runtime_error(vm, "Expected " \o FormatNumber(arg_count) \o " arguments, but got "
                           \o FormatNumber(arity))
    ELSE IF Len(vm.frames) = FRAMES_MAX THEN runtime_error(vm, "Stack overflow!")
    ELSE Continue([vm EXCEPT
             !.frames = Append(@, CallFrame(fn, 0, vm.stack_top - arg_count - 1))])

\* call without the limit on the number of frames
call_unlimited(vm, fn, arg_count, arity) ==
    IF arg_count # arity
    THEN runtime_error(vm, "Expected " \o FormatNumber(arity) \o " arguments, but got "
                           \o FormatNumber(arg_count))
    ELSE Continue([vm EXCEPT
             !.frames = Append(@, CallFrame(fn, 0, vm.stack_top - arg_count - 1))])

call(vm, fn, arg_count, arity) ==
    IF arg_count # arity
    THEN runtime_error(vm, "Expected " \o FormatNumber(arity) \o " arguments, but got "
                           \o FormatNumber(arg_count))
    ELSE IF Len(vm.frames) = FRAMES_MAX THEN runtime_error(vm, "Stack overflow!")
    ELSE Continue([vm EXCEPT
             !.frames = Append(@, CallFrame(fn, 0, vm.stack_top - arg_count - 1))])

call_value(vm, callee, arg_count) ==
    IF callee.t = "Obj"
    THEN IF callee.ptr >= Len(vm.heap.heap) THEN Continue(vm_panic(vm))
         ELSE IF borrow(vm.heap, callee.ptr).kind = "Function"
              THEN call(vm, callee.ptr, arg_count,
                        borrow(vm.heap, callee.ptr).function.arity)
         ELSE runtime_error(vm, "Can only call functions and classes")
    ELSE runtime_error(vm, "Can only call functions and classes")

\* read_byte: the vm afterwards; the byte read is byte_read of the vm before
read_byte(vm) ==
    IF vm.crashed \/ Len(vm.frames) = 0 THEN vm_panic(vm)
    ELSE IF frame(vm).ip >= Len(frame_function(vm, frame(vm)).chunk.code) THEN vm_panic(vm)
    ELSE [vm EXCEPT !.frames[Len(vm.frames)].ip = @ + 1]

byte_read(vm) == frame_function(vm, frame(vm)).chunk.code[frame(vm).ip + 1]

\* read_short: the vm afterwards; the operand is short_read of the vm before
read_short(vm) ==
    IF vm.crashed \/ Len(vm.frames) = 0 THEN vm_panic(vm)
    ELSE IF frame(vm).ip + 1 >= Len(frame_function(vm, frame(vm)).chunk.code)
         THEN vm_panic(vm)
    ELSE [vm EXCEPT !.frames[Len(vm.frames)].ip = @ + 2]

short_read(vm) ==
    Bind(frame_function(vm, frame(vm)).chunk.code, LAMBDA code :
       code[frame(vm).ip + 1] * 256 + code[frame(vm).ip + 2])

\* read_constant: the vm afterwards and the constant
read_constant(vm) ==
    Bind(read_byte(vm), LAMBDA vm1 :
    Bind(frame_function(vm, frame(vm)).chunk.constants, LAMBDA constants :
       IF vm1.crashed THEN [vm |-> vm1, val |-> Nil]
       ELSE IF byte_read(vm) >= Len(constants) THEN [vm |-> vm_panic(vm1), val |-> Nil]
       ELSE [vm |-> vm1, val |-> constants[byte_read(vm) + 1]]))

\* read_string: as_obj_ptr panics on a constant that is no object
read_string(vm) ==
    Bind(read_constant(vm), LAMBDA r :
       IF r.vm.crashed THEN [vm |-> r.vm, val |-> 0]
       ELSE IF r.val.t # "Obj" THEN [vm |-> vm_panic(r.vm), val |-> 0]
       ELSE [vm |-> r.vm, val |-> r.val.ptr])

\* {:?} of a Value that is no Number
value_debug(v) ==
    CASE v.t = "Nil" -> "Nil"
      [] v.t = "Bool" -> "Bool(" \o (IF v.b THEN "true" ELSE "false") \o ")"
      [] v.t = "Obj" -> "Obj(ObjPointer(" \o FormatNumber(v.ptr) \o "))"
      [] OTHER -> "Number"

\* a / b of two integer-valued numbers is modelled where it is an integer
divides_exactly(a, b) == b # 0 /\ \E q \in -(a * a)..(a * a) : q * b = a

quotient(a, b) == CHOOSE q \in -(a * a)..(a * a) : q * b = a

\* binary_op! checking the left operand only; a right operand that is no
\* Number counts as 0
binary_op_left_checked(vm, op) ==
    Bind(vm_top(vm), LAMBDA b :
    Bind(pop(vm), LAMBDA vm1 :
    Bind(vm_top(vm1), LAMBDA a :
    Bind(pop(vm1), LAMBDA vm2 :
    Bind(IF b.t = "Number" THEN b.n ELSE 0, LAMBDA bn :
       IF vm2.crashed THEN Continue(vm2)
       ELSE IF a.t = "Number"
       THEN CASE op = OpCode.Subtract -> Continue(push(vm2, Number(a.n - bn)))
              [] op = OpCode.Multiply -> Continue(push(vm2, Number(a.n * bn)))
              [] op = OpCode.Divide ->
                     IF divides_exactly(a.n, bn)
                     THEN Continue(push(vm2, Number(quotient(a.n, bn))))
                     ELSE [Continue(vm2) EXCEPT !.outcome = "unmodelled"]
              [] op = OpCode.Greater -> Continue(push(vm2, Bool(a.n > bn)))
              [] op = OpCode.Less -> Continue(push(vm2, Bool(a.n < bn)))
       ELSE runtime_error(vm2, "Operands must be numbers."))))))

\* binary_op!: b is popped first, then a
binary_op(vm, op) ==
    Bind(vm_top(vm), LAMBDA b :
    Bind(pop(vm), LAMBDA vm1 :
    Bind(vm_top(vm1), LAMBDA a :
    Bind(pop(vm1), LAMBDA vm2 :
       IF vm2.crashed THEN Continue(vm2)
       ELSE IF a.t = "Number" /\ b.t = "Number"
       THEN CASE op = OpCode.Subtract -> Continue(push(vm2, Number(a.n - b.n)))
              [] op = OpCode.Multiply -> Continue(push(vm2, Number(a.n * b.n)))
              [] op = OpCode.Divide ->
                     IF divides_exactly(a.n, b.n)
                     THEN Continue(push(vm2, Number(quotient(a.n, b.n))))
                     ELSE [Continue(vm2) EXCEPT !.outcome = "unmodelled"]
              [] op = OpCode.Greater -> Continue(push(vm2, Bool(a.n > b.n)))
              [] op = OpCode.Less -> Continue(push(vm2, Bool(a.n < b.n)))
       ELSE runtime_error(vm2, "Operands must be numbers.")))))

op_negate(vm) ==
    Bind(vm_top(vm), LAMBDA operand :
    Bind(pop(vm), LAMBDA vm1 :
       IF vm1.crashed THEN Continue(vm1)
       ELSE IF operand.t = "Number" THEN Continue(push(vm1, Number(0 - operand.n)))
       ELSE runtime_error(vm1, "Operand (" \o value_debug(operand)
                               \o ") must be a number")))

\* OpCode::Add: the tuple (self.pop(), self.pop()) pops b, then a
op_add(vm) ==
    Bind(vm_top(vm), LAMBDA b :
    Bind(pop(vm), LAMBDA vm1 :
    Bind(vm_top(vm1), LAMBDA a :
    Bind(pop(vm1), LAMBDA vm2 :
    Bind(runtime_error(vm2, "Operands must be two numbers or two strings"), LAMBDA mismatch :
       IF vm2.crashed THEN Continue(vm2)
       ELSE IF a.t = "Number" /\ b.t = "Number"
            THEN Continue(push(vm2, Number(a.n + b.n)))
       ELSE IF a.t = "Obj" /\ b.t = "Obj"
            THEN IF a.ptr >= Len(vm2.heap.heap) \/ b.ptr >= Len(vm2.heap.heap)
                 THEN Continue(vm_panic(vm2))
                 ELSE IF borrow(vm2.heap, a.ptr).kind = "String"
                         /\ borrow(vm2.heap, b.ptr).kind = "String"
                 THEN Bind(borrow(vm2.heap, a.ptr).string
                                        \o borrow(vm2.heap, b.ptr).string, LAMBDA new_string :
                      Bind(take_string(vm2.heap, new_string), LAMBDA t :
                         Continue(push([vm2 EXCEPT !.heap = t.heap], Obj(t.ptr)))))
                 ELSE mismatch
       ELSE mismatch)))))

op_equal(vm) ==
    Bind(vm_top(vm), LAMBDA b :
    Bind(pop(vm), LAMBDA vm1 :
    Bind(vm_top(vm1), LAMBDA a :
    Bind(pop(vm1), LAMBDA vm2 :
       IF vm2.crashed THEN Continue(vm2) ELSE Continue(push(vm2, Bool(value_eq(a, b))))))))

op_not(vm) ==
    Bind(Bool(is_falsey(vm_top(vm))), LAMBDA value :
    Bind(pop(vm), LAMBDA vm1 :
       IF vm1.crashed THEN Continue(vm1) ELSE Continue(push(vm1, value))))

\* OpCode::Print: println! of the popped value
op_print(vm) ==
    Bind(vm_top(vm), LAMBDA value :
    Bind(pop(vm), LAMBDA vm1 :
       IF vm1.crashed THEN Continue(vm1)
       ELSE Continue([vm1 EXCEPT !.stdout = Append(@, value_to_string(vm1.heap, value))])))

op_constant(vm) ==
    Bind(read_constant(vm), LAMBDA r :
       Continue(push(r.vm, r.val)))

op_get_global(vm) ==
    Bind(read_string(vm), LAMBDA name :
       IF name.vm.crashed THEN Continue(name.vm)
       ELSE IF name.val \in DOMAIN name.vm.globals
            THEN Continue(push(name.vm, name.vm.globals[name.val]))
       ELSE runtime_error(name.vm, "Undefined variable '"
                                   \o ptr_to_string(name.vm.heap, name.val) \o "'"))

op_define_global(vm) ==
    Bind(read_string(vm), LAMBDA name :
       IF name.vm.crashed \/ ~vm_peek_ok(name.vm, 0) THEN Continue(vm_panic(name.vm))
       ELSE Continue(pop([name.vm EXCEPT
                !.globals = (name.val :> vm_top(name.vm)) @@ @])))

\* SetGlobal without the check that the name is defined
op_set_global_unchecked(vm) ==
    Bind(read_string(vm), LAMBDA name :
       IF name.vm.crashed \/ ~vm_peek_ok(name.vm, 0) THEN Continue(vm_panic(name.vm))
       ELSE Continue([name.vm EXCEPT !.globals = (name.val :> vm_top(name.vm)) @@ @]))

op_set_global(vm) ==
    Bind(read_string(vm), LAMBDA name :
       IF name.vm.crashed THEN Continue(name.vm)
       ELSE IF name.val \notin DOMAIN name.vm.globals
            THEN runtime_error(name.vm, "Undefined variable '"
                                        \o ptr_to_string(name.vm.heap, name.val) \o "'")
       ELSE IF ~vm_peek_ok(name.vm, 0) THEN Continue(vm_panic(name.vm))
       ELSE Continue([name.vm EXCEPT !.globals = (name.val :> vm_top(name.vm)) @@ @]))

op_get_local(vm) ==
    Bind(byte_read(vm), LAMBDA slot :
    Bind(read_byte(vm), LAMBDA vm1 :
       IF vm1.crashed \/ frame(vm1).fp + slot >= STACK_MAX THEN Continue(vm_panic(vm1))
       ELSE Continue(push(vm1, stack_get(vm1, frame(vm1).fp + slot)))))

op_set_local(vm) ==
    Bind(byte_read(vm), LAMBDA slot :
    Bind(read_byte(vm), LAMBDA vm1 :
       IF vm1.crashed \/ ~vm_peek_ok(vm1, 0) \/ frame(vm1).fp + slot >= STACK_MAX
       THEN Continue(vm_panic(vm1))
       ELSE Continue(stack_set(vm1, frame(vm1).fp + slot, vm_top(vm1)))))

op_jump_if_false(vm) ==
    Bind(short_read(vm), LAMBDA offset :
    Bind(read_short(vm), LAMBDA vm1 :
       IF vm1.crashed \/ ~vm_peek_ok(vm1, 0) THEN Continue(vm_panic(vm1))
       ELSE IF is_falsey(vm_top(vm1))
            THEN Continue([vm1 EXCEPT !.frames[Len(vm1.frames)].ip = @ + offset])
       ELSE Continue(vm1)))

op_jump(vm) ==
    Bind(short_read(vm), LAMBDA offset :
    Bind(read_short(vm), LAMBDA vm1 :
       IF vm1.crashed THEN Continue(vm1)
       ELSE Continue([vm1 EXCEPT !.frames[Len(vm1.frames)].ip = @ + offset])))

\* OpCode::Loop: ip is a usize, so a distance beyond it cannot be taken
op_loop(vm) ==
    Bind(short_read(vm), LAMBDA offset :
    Bind(read_short(vm), LAMBDA vm1 :
       IF vm1.crashed \/ offset > frame(vm1).ip THEN Continue(vm_panic(vm1))
       ELSE Continue([vm1 EXCEPT !.frames[Len(vm1.frames)].ip = @ - offset])))

op_call(vm) ==
    Bind(byte_read(vm), LAMBDA arg_count :
    Bind(read_byte(vm), LAMBDA vm1 :
       IF vm1.crashed \/ ~vm_peek_ok(vm1, arg_count) THEN Continue(vm_panic(vm1))
       ELSE call_value(vm1, vm_peek(vm1, arg_count), arg_count)))

\* OpCode::Return
op_return(vm) == ReturnOk(vm)

\* one pass of the loop of VM::run
run_instruction(vm) ==
    Bind(read_byte(vm), LAMBDA vm1 :
    Bind(byte_read(vm), LAMBDA instruction :
       IF vm1.crashed THEN Continue(vm1)
       ELSE CASE instruction = OpCode.Return -> op_return(vm1)
              [] instruction = OpCode.Constant -> op_constant(vm1)
              [] instruction = OpCode.Negate -> op_negate(vm1)
              [] instruction = OpCode.Add -> op_add(vm1)
              [] instruction \in {OpCode.Subtract, OpCode.Multiply, OpCode.Divide,
                                  OpCode.Greater, OpCode.Less} -> binary_op(vm1, instruction)
              [] instruction = OpCode.Nil -> Continue(push(vm1, Nil))
              [] instruction = OpCode.True -> Continue(push(vm1, Bool(TRUE)))
              [] instruction = OpCode.False -> Continue(push(vm1, Bool(FALSE)))
              [] instruction = OpCode.Not -> op_not(vm1)
              [] instruction = OpCode.Equal -> op_equal(vm1)
              [] instruction = OpCode.OpPrint -> op_print(vm1)
              [] instruction = OpCode.Pop -> Continue(pop(vm1))
              [] instruction = OpCode.GetGlobal -> op_get_global(vm1)
              [] instruction = OpCode.DefineGlobal -> op_define_global(vm1)
              [] instruction = OpCode.SetGlobal -> op_set_global(vm1)
              [] instruction = OpCode.GetLocal -> op_get_local(vm1)
              [] instruction = OpCode.SetLocal -> op_set_local(vm1)
              [] instruction = OpCode.JumpIfFalse -> op_jump_if_false(vm1)
              [] instruction = OpCode.Jump -> op_jump(vm1)
              [] instruction = OpCode.Loop -> op_loop(vm1)
              [] instruction = OpCode.Call -> op_call(vm1)
              [] OTHER -> Continue(vm_panic(vm1))))

\* VM::interpret up to the call of run: compile, allocate the script function,
\* push it and call it.  "compile_error" is Err(InterpretError::CompileError).
interpret_compiled(vm, c) ==
    Bind([vm EXCEPT !.heap = c.heap, !.stdout = @ \o c.stdout,
                          !.stderr = @ \o c.stderr, !.crashed = c.crashed], LAMBDA vm1 :
    Bind(allocate_obj(vm1.heap, ObjFunctionKind(c.function)), LAMBDA a :
    Bind(push([vm1 EXCEPT !.heap = a.heap], Obj(a.ptr)), LAMBDA vm2 :
       IF c.crashed THEN Continue(vm1)
       ELSE IF ~c.ok THEN [Continue(vm1) EXCEPT !.outcome = "compile_error"]
       ELSE IF vm2.crashed THEN Continue(vm2)
       ELSE call_value(vm2, Obj(a.ptr), 0))))

interpret(vm, source, overflow_checks) ==
    interpret_compiled(vm, compile(source, vm.heap, overflow_checks))

(***************************************************************************)
(* The state: one VM as main.rs drives it (repl calls interpret again and  *)
(* again on the same VM), and an object heap used on its own.              *)
(***************************************************************************)
VARIABLES
    frames,          \* VM::frames
    stack,           \* VM::stack, the written prefix of the array
    stack_top,       \* VM::stack_top
    heap,            \* VM::heap, an ObjHeap {heap, strings}
    globals,         \* VM::globals
    stdout,          \* lines written to standard output by the current interpret call
    stderr,          \* lines written to standard error by the current interpret call
    status,          \* "idle": no interpret call in progress; "running": inside VM::run;
                     \* "crashed": the process panicked
    result,          \* what the last interpret call returned
    last_error,      \* the RuntimeError it returned, if any
    source,          \* the source text of the current or last interpret call
    interprets,      \* the number of interpret calls made so far
    overflow_checks, \* whether the build panics on integer overflow (debug) or wraps
    handles,         \* the <<content, handle>> pairs that copy_string and take_string
                     \* returned to a direct user of the heap, in call order
    parser,          \* the Parser of a compile call that is followed declaration by
                     \* declaration
    phase,              \* where that compile call stands: "idle" (no such call),
                     \* "declaration", "initializer" and "define" (var_declaration),
                     \* "function" and "defined" (fun_declaration), "done"
    global,          \* the local `global` of var_declaration and fun_declaration
    walker           \* the tree-walking implementation: the program in hand, the
                     \* Interpreter with the distances the Resolver stored in it,
                     \* its environments and what it has printed

vars == <<frames, stack, stack_top, heap, globals, stdout, stderr, status, result, last_error,
          source, interprets, overflow_checks, handles, parser, phase, global, walker>>

\* the interpret calls one VM receives
MaxInterprets == 2

\* VM::new
Init ==
    /\ frames = <<>>
    /\ stack = <<>>
    /\ stack_top = 0
    /\ heap = ObjHeap_new
    /\ globals = <<>>
    /\ stdout = <<>>
    /\ stderr = <<>>
    /\ status = "idle"
    /\ result = "none"
    /\ last_error = NoError
    /\ source = ""
    /\ interprets = 0
    /\ overflow_checks \in BOOLEAN
    /\ handles = <<>>
    /\ parser = Parser_new("", ObjHeap_new, overflow_checks)
    /\ phase = "idle"
    /\ global = 0
    /\ walker = [phase |-> "idle"]

\* the VM of the current state as a vm record; a new interpret call starts with
\* empty output
VM == [frames |-> frames, stack |-> stack, stack_top |-> stack_top, heap |-> heap,
       globals |-> globals, stdout |-> stdout, stderr |-> stderr, crashed |-> FALSE]

\* the state after a part of interpret left r
Becomes(r) ==
    /\ frames' = r.vm.frames
    /\ stack' = r.vm.stack
    /\ stack_top' = r.vm.stack_top
    /\ heap' = r.vm.heap
    /\ globals' = r.vm.globals
    /\ stdout' = r.vm.stdout
    /\ stderr' = r.vm.stderr
    /\ status' = CASE r.outcome = "next" -> "running"
                   [] r.outcome = "panic" -> "crashed"
                   [] OTHER -> "idle"
    /\ result' = CASE r.outcome = "ok" -> "ok"
                   [] r.outcome = "compile_error" -> "compile_error"
                   [] r.outcome = "error" -> "runtime_error"
                   [] OTHER -> "none"
    /\ last_error' = r.error

\* vm.interpret(src), up to the first dispatch of run
InterpretCall(src) ==
    /\ status = "idle"
    /\ Becomes(interpret([VM EXCEPT !.stdout = <<>>, !.stderr = <<>>], src, overflow_checks))
    /\ source' = src
    /\ interprets' = interprets + 1
    /\ UNCHANGED <<overflow_checks, handles, parser, phase, global, walker>>

\* one of the first MaxInterprets interpret calls
Interpret(src) ==
    /\ interprets < MaxInterprets
    /\ InterpretCall(src)

\* one dispatch of the loop of VM::run
Step ==
    /\ status = "running"
    /\ run_instruction(VM).outcome # "unmodelled"
    /\ Becomes(run_instruction(VM))
    /\ UNCHANGED <<source, interprets, overflow_checks, handles, parser, phase, global, walker>>

(***************************************************************************)
(* A compile call followed declaration by declaration: the loop of         *)
(* Parser::compile and the loop of Parser::block of a block statement run  *)
(* one turn per step, var_declaration and fun_declaration one part per     *)
(* step.  Every other statement, and the body of a function, is one step.  *)
(***************************************************************************)
CompilerUnchanged ==
    UNCHANGED <<frames, stack, stack_top, heap, globals, stdout, stderr, status, result,
                last_error, source, interprets, overflow_checks, handles, walker>>

\* the compile call goes on from position pos
Compiling(pos) == phase = pos /\ ~parser.crashed

\* fn compile up to the first turn of the loop of Parser::compile
CompileBegin(src) ==
    /\ phase = "idle"
    /\ parser' = advance(Parser_new(src, ObjHeap_new, overflow_checks))
    /\ phase' = "declaration"
    /\ UNCHANGED global
    /\ CompilerUnchanged

\* declaration at `var`, var_declaration up to the initializer
VarName ==
    /\ Compiling("declaration")
    /\ check(parser, "Var")
    /\ parser' = parse_variable(advance(parser), "Expect variable name").p
    /\ global' = parse_variable(advance(parser), "Expect variable name").ret
    /\ phase' = "initializer"
    /\ CompilerUnchanged

\* var_declaration: the initializer expression, or the Nil in its place
VarInitializer ==
    /\ Compiling("initializer")
    /\ parser' = IF check(parser, "Equal") THEN expression(advance(parser))
                 ELSE emit_opcode(parser, OpCode.Nil)
    /\ phase' = "define"
    /\ UNCHANGED global
    /\ CompilerUnchanged

\* var_declaration from the `;` on, and the end of declaration
VarDefine ==
    /\ Compiling("define")
    /\ parser' = declaration_end(define_variable(
                     consume(parser, "Semicolon", "Expect ';' after variable declaration"),
                     global))
    /\ phase' = "declaration"
    /\ UNCHANGED global
    /\ CompilerUnchanged

\* declaration at `fun`, fun_declaration up to the call of function
FunName ==
    /\ Compiling("declaration")
    /\ check(parser, "Fun")
    /\ parser' = mark_initialized(parse_variable(advance(parser), "Expect function name").p)
    /\ global' = parse_variable(advance(parser), "Expect function name").ret
    /\ phase' = "function"
    /\ CompilerUnchanged

\* fun_declaration: self.function(FunctionType::Function)
FunBody ==
    /\ Compiling("function")
    /\ parser' = function(parser, "Function")
    /\ phase' = "defined"
    /\ UNCHANGED global
    /\ CompilerUnchanged

\* fun_declaration: define_variable, and the end of declaration
FunDefine ==
    /\ Compiling("defined")
    /\ parser' = declaration_end(define_variable(parser, global))
    /\ phase' = "declaration"
    /\ UNCHANGED global
    /\ CompilerUnchanged

\* statement at `{`: begin_scope and the first test of the loop of block
BlockBegin ==
    /\ Compiling("declaration")
    /\ check(parser, "LeftBrace")
    /\ parser' = begin_scope(advance(parser))
    /\ UNCHANGED <<phase, global, walker>>
    /\ CompilerUnchanged

\* the loop of block ends: consume, end_scope, and the end of declaration
BlockEnd ==
    /\ Compiling("declaration")
    /\ parser.compiler.scope_depth > 0
    /\ check(parser, "RightBrace") \/ check(parser, "EOF")
    /\ parser' = declaration_end(block_end(parser))
    /\ UNCHANGED <<phase, global, walker>>
    /\ CompilerUnchanged

\* a declaration that is a statement other than a block
Statement ==
    /\ Compiling("declaration")
    /\ ~check(parser, "Var") /\ ~check(parser, "Fun") /\ ~check(parser, "LeftBrace")
    /\ ~check(parser, "EOF")
    /\ ~(check(parser, "RightBrace") /\ parser.compiler.scope_depth > 0)
    /\ parser' = declaration(parser)
    /\ UNCHANGED <<phase, global, walker>>
    /\ CompilerUnchanged

\* the loop of Parser::compile matches EOF: end_compiler
CompileEnd ==
    /\ Compiling("declaration")
    /\ parser.compiler.scope_depth = 0
    /\ check(parser, "EOF")
    /\ parser' = end_compiler(advance(parser))
    /\ phase' = "done"
    /\ UNCHANGED global
    /\ CompilerUnchanged

\* one step of the compile call
CompileStep ==
    \/ VarName \/ VarInitializer \/ VarDefine
    \/ FunName \/ FunBody \/ FunDefine
    \/ BlockBegin \/ BlockEnd \/ Statement \/ CompileEnd

(***************************************************************************)
(* The lines typed into the repl: one VM, one interpret call per line.      *)
(***************************************************************************)
\* a function without a return statement, called with arg_list
CallSrc(arg_list) == "fun add(a,b) { print a+b; } add(" \o arg_list \o "); print 7;"

CallSources == {CallSrc("1,2"), CallSrc("1"), CallSrc("1,2,3"), CallSrc(""),
                "fun f() { print 1; } f(2);"}

\* programs that fail a runtime check with values and locals on the stack
FaultSources == {"print -true;", "print x;", "{ var a = 1; var b = 2; print a + nil; }",
                 "x = 1;"}

\* programs with a syntax error, after some code has already been emitted
BadSources == {"print 1 +; var = 2; print 3;", "var a = 1; print a; a + b = c;",
               "print 1; print ;", "{ var a = a; }"}

\* a line that runs to its end
PlainSources == {"print 1 + 2;"}

Programs == CallSources \cup FaultSources \cup BadSources \cup PlainSources

InterpretProgram == \E src \in Programs : Interpret(src)

Next == InterpretProgram \/ Step

Spec == Init /\ [][Next]_vars

(***************************************************************************)
(* The scripts handed to run_file: a new VM and one interpret call each.   *)
(***************************************************************************)
\* the number literals written into the scripts are 0..MaxOperand
MaxOperand == 1

Operands == 0..MaxOperand

\* the function-call example of the specification, followed by one more statement
AddSrc(x, y) == "fun add(a,b) { return a+b; } print add(" \o FormatNumber(x) \o ","
                \o FormatNumber(y) \o "); print 7;"

AddSources == {AddSrc(x, y) : x \in Operands, y \in Operands}

\* an outer x = a and an inner x = b: global and local, local and local,
\* parameter and local
ShadowGlobalSrc(a, b) == "var x = " \o FormatNumber(a) \o "; { var x = "
                         \o FormatNumber(b) \o "; print x; } print x;"

ShadowLocalSrc(a, b) == "{ var x = " \o FormatNumber(a) \o "; { var x = "
                        \o FormatNumber(b) \o "; print x; } print x; }"

ShadowParamSrc(a, b) == "fun f(x) { { var x = " \o FormatNumber(b)
                        \o "; print x; } print x; } f(" \o FormatNumber(a) \o ");"

ShadowSources == UNION {{ShadowGlobalSrc(a, b), ShadowLocalSrc(a, b), ShadowParamSrc(a, b)} :
                        a \in Operands, b \in Operands}

Words == {"foo", "bar", ""}

ConcatSrc(l, r) == "print \"" \o l \o "\" + \"" \o r \o "\";"

ConcatSources == {ConcatSrc(l, r) : l \in Words, r \in Words}

\* a script with n number literals, each an expression statement of its own
ConstSrc(n) == Repeat("1;", n)

\* one below the capacity of the pool, the capacity, and one above it
ConstSources == {ConstSrc(U8_MAX), ConstSrc(U8_MAX + 1), ConstSrc(U8_MAX + 2)}

\* for loops and the while loops they stand for; the loop bounds n are
\* 0..MaxIterations
MaxIterations == 3

LoopBodies == {"print i;", "{ var j = i; print j; }"}

ForSrc(n, body) == "for (var i = 0; i < " \o FormatNumber(n) \o "; i = i + 1) " \o body

WhileSrc(n, body) == "var i = 0; while (i < " \o FormatNumber(n) \o ") { " \o body
                     \o " i = i + 1; }"

LoopSources == UNION {{ForSrc(n, body), WhileSrc(n, body)} :
                      n \in 0..MaxIterations, body \in LoopBodies}

Scripts == AddSources \cup ShadowSources \cup ConcatSources \cup ConstSources
           \cup LoopSources

\* run_file: one interpret call on a new VM
RunFile == \E src \in Scripts : interprets = 0 /\ Interpret(src)

NextFile == RunFile \/ Step

SpecFile == Init /\ [][NextFile]_vars

(***************************************************************************)
(* The object heap used on its own: any sequence of copy_string,           *)
(* take_string and allocate_obj calls.  allocate_obj is handed function    *)
(* objects, as its callers outside object.rs do (vm.rs:230,                *)
(* compiler.rs:359).                                                       *)
(***************************************************************************)
\* the calls made on one heap
MaxHeapCalls == 4

HeapContents == {"", "a", "b", "ab"}

HeapFunctions == {ObjFunction_new, [ObjFunction_new EXCEPT !.name = Some("a")]}

HeapCalls == Len(handles) + Cardinality({i \in 1..Len(heap.heap) :
                                            heap.heap[i].kind = "Function"})

HeapUnchanged == UNCHANGED <<frames, stack, stack_top, globals, stdout, stderr, status,
                             result, last_error, source, interprets, overflow_checks,
                             parser, phase, global, walker>>

HeapCopyString ==
    \E str \in HeapContents :
        /\ HeapCalls < MaxHeapCalls
        /\ heap' = copy_string(heap, str).heap
        /\ handles' = Append(handles, <<str, copy_string(heap, str).ptr>>)
        /\ HeapUnchanged

HeapTakeString ==
    \E str \in HeapContents :
        /\ HeapCalls < MaxHeapCalls
        /\ heap' = take_string(heap, str).heap
        /\ handles' = Append(handles, <<str, take_string(heap, str).ptr>>)
        /\ HeapUnchanged

HeapAllocateObj ==
    \E fn \in HeapFunctions :
        /\ HeapCalls < MaxHeapCalls
        /\ heap' = allocate_obj(heap, ObjFunctionKind(fn)).heap
        /\ UNCHANGED handles
        /\ HeapUnchanged

NextHeap == HeapCopyString \/ HeapTakeString \/ HeapAllocateObj

SpecHeap == Init /\ [][NextHeap]_vars

(***************************************************************************)
(* Properties of the VM under Spec and SpecFile.                           *)
(***************************************************************************)
\* C1: the call-frame stack holds exactly one frame per call that has begun and
\* has not yet returned, so between interpret calls, when no call is active, it
\* is empty, and inside run it holds at least the script's frame.
C1_OneFramePerActiveCall ==
    /\ status = "idle" => Len(frames) = 0
    /\ status = "running" => Len(frames) >= 1

\* the lines that Print instructions wrote last
LastLines(n) == SubSeq(stdout, Len(stdout) - n + 1, Len(stdout))

\* C2: a function whose body is `return a+b;` compiles, and the call add(x,y)
\* evaluates to x+y, after which the caller goes on: the program prints x+y and
\* then runs its next statement.
C2_CallYieldsReturnValue ==
    \A x \in Operands, y \in Operands :
        (status = "idle" /\ source = AddSrc(x, y))
            => (result = "ok" /\ Len(stdout) >= 2
                /\ LastLines(2) = <<FormatNumber(x + y), "7">>)

\* the active frame is about to dispatch a Call instruction
CallPending ==
    /\ status = "running"
    /\ byte_read(VM) = OpCode.Call

\* the operand of that Call and the value it finds below the arguments
PendingArgCount == frame_function(VM, frame(VM)).chunk.code[frame(VM).ip + 2]

PendingCallee == vm_peek(VM, PendingArgCount)

CalleeIsFunction ==
    /\ PendingCallee.t = "Obj"
    /\ borrow(heap, PendingCallee.ptr).kind = "Function"

PendingArity == borrow(heap, PendingCallee.ptr).function.arity

\* C3: a Call whose argument count differs from the callee's arity ends the
\* interpret call with a RuntimeError whose message names the expected arity and
\* the actual argument count, and pushes no CallFrame.
C3_ArityMismatch ==
    [][(CallPending /\ CalleeIsFunction /\ PendingArity # PendingArgCount)
          => /\ status' = "idle"
             /\ result' = "runtime_error"
             /\ last_error'.message = "Expected " \o FormatNumber(PendingArity)
                                      \o " arguments, but got "
                                      \o FormatNumber(PendingArgCount)
             /\ Len(frames') = Len(frames)]_vars

C3_Witness ==
    /\ status = "idle"
    /\ result = "runtime_error"
    /\ last_error.message = "Expected 2 arguments, but got 1"
    /\ source = CallSrc("1")

\* C4: after an interpret call that failed a runtime check has returned, the VM
\* holds no operand-stack values and no CallFrames of the failed run.
C4_FaultDiscardsState ==
    (status = "idle" /\ result = "runtime_error") => (stack_top = 0 /\ frames = <<>>)

\* C5: when the compiler reports an error, interpret returns CompileError without
\* dispatching an instruction, and leaves the operand stack, the call frames and
\* the global table as they were.
C5_CompileErrorLeavesVM ==
    [][(interprets' = interprets + 1 /\ stderr' # <<>> /\ status' # "crashed")
          => /\ status' = "idle"
             /\ result' = "compile_error"
             /\ UNCHANGED <<frames, stack, stack_top, globals>>]_vars

C5_Witness ==
    /\ status = "idle"
    /\ result = "compile_error"
    /\ Len(stderr) >= 2
    /\ stack_top > 0
    /\ globals # <<>>

\* C8: a variable reference resolves to the innermost local of that name and to
\* the global when there is none, and to the outer declaration again once the
\* inner block has ended: with an outer x = a and an inner x = b the program
\* prints b and then a.
C8_Shadowing ==
    \A a \in Operands, b \in Operands :
        status = "idle" =>
            /\ source \in {ShadowGlobalSrc(a, b), ShadowLocalSrc(a, b)}
                  => (result = "ok" /\ stdout = <<FormatNumber(b), FormatNumber(a)>>)
            /\ source = ShadowParamSrc(a, b)
                  => (result = "ok" /\ Len(stdout) = 3
                      /\ LastLines(2) = <<FormatNumber(b), FormatNumber(a)>>)

C8_Witness ==
    /\ status = "idle"
    /\ source = ShadowLocalSrc(0, 1)
    /\ stdout = <<"1", "0">>

\* C9: Add on two strings yields the left content followed by the right one, and
\* Print writes exactly that content: print "l" + "r"; writes the line lr.
C9_ConcatenationOutput ==
    \A l \in Words, r \in Words :
        (status = "idle" /\ source = ConcatSrc(l, r))
            => (result = "ok" /\ stdout = <<l \o r>>)

(***************************************************************************)
(* Properties under SpecFile and SpecHeap.                                 *)
(***************************************************************************)
\* C6: adding a constant to a chunk whose pool is full is rejected with a
\* compile error: interpret of a script with 257 literals returns CompileError.
C6_FullPoolIsCompileError ==
    (interprets > 0 /\ source = ConstSrc(U8_MAX + 2))
        => (status = "idle" /\ result = "compile_error")

\* the lines "0", "1", ..., "n-1"
Iota(n) == [k \in 1..n |-> FormatNumber(k - 1)]

\* C7: for (var i = 0; i < n; i = i + 1) body and var i = 0; while (i < n)
\* { body i = i + 1; } run the body the same number of times with the same
\* values in the same order and both finish: each prints 0, 1, ..., n-1.
C7_LoopEquivalence ==
    \A n \in 0..MaxIterations, body \in LoopBodies :
        (status = "idle" /\ source \in {ForSrc(n, body), WhileSrc(n, body)})
            => (result = "ok" /\ stdout = Iota(n))

IsString(i) == heap.heap[i].kind = "String"

EqualSources == {"var s = \"ab\"; print s == \"a\" + \"b\";",
                 "print s == \"ab\"; print \"a\" + \"b\" == s;",
                 "print nil == nil; print nil == false; print true == true; print true == false;",
                 "print 1 == 1; print 1 == 2; print 0 == false; print \"1\" == 1; print \"\" == nil;",
                 "print \"a\" + \"b\" == \"b\" + \"a\"; print \"a\" + \"\" == \"a\";"}

InterpretEqual == \E src \in EqualSources : Interpret(src)

NextEqual == InterpretEqual \/ Step

SpecEqual == Init /\ [][NextEqual]_vars

\* the active frame is about to dispatch an Equal instruction
EqualPending ==
    /\ status = "running"
    /\ byte_read(VM) = OpCode.Equal

IsStringValue(v) == v.t = "Obj" /\ borrow(heap, v.ptr).kind = "String"

\* a and b are of the same kind and equal, strings by their content
SameValue(a, b) ==
    \/ a.t = "Nil" /\ b.t = "Nil"
    \/ a.t = "Bool" /\ b.t = "Bool" /\ a.b = b.b
    \/ a.t = "Number" /\ b.t = "Number" /\ a.n = b.n
    \/ /\ IsStringValue(a) /\ IsStringValue(b)
       /\ borrow(heap, a.ptr).string = borrow(heap, b.ptr).string

\* C11: Equal replaces its two operands by true exactly when they are of the
\* same kind and equal (Nil and Nil, Bools of the same truth value, Numbers of
\* the same value, strings of the same content, wherever the strings came
\* from), and by false otherwise.
C11_EqualComparesValues ==
    [][(EqualPending /\ \A d \in {0, 1} : vm_peek(VM, d).t = "Obj" => IsStringValue(vm_peek(VM, d)))
          => /\ status' = "running"
             /\ stack_top' = stack_top - 1
             /\ stack'[stack_top'] = Bool(SameValue(vm_peek(VM, 1), vm_peek(VM, 0)))]_vars

\* a global set by one line equals a literal and a concatenation of a later line
C11_Witness ==
    /\ status = "idle"
    /\ interprets = 2
    /\ source = "print s == \"ab\"; print \"a\" + \"b\" == s;"
    /\ stdout = <<"true", "true">>

(***************************************************************************)
(* Expressions: scripts that print one arithmetic expression of three      *)
(* number literals.                                                        *)
(***************************************************************************)
ExprOperands == {1, 2, 3, 8}

Expr3(pre, a, op1, b, op2, c, post) ==
    "print " \o pre \o FormatNumber(a) \o op1 \o FormatNumber(b) \o op2 \o FormatNumber(c)
    \o post \o ";"

\* a + b * c, (a + b) * c, a - b - c, -a * b + c
MixedSrc(a, b, c) == Expr3("", a, " + ", b, " * ", c, "")

GroupedSrc(a, b, c) == Expr3("(", a, " + ", b, ") * ", c, "")

ChainSrc(a, b, c) == Expr3("", a, " - ", b, " - ", c, "")

NegatedSrc(a, b, c) == Expr3("-", a, " * ", b, " + ", c, "")

ExprSources == UNION {{MixedSrc(a, b, c), GroupedSrc(a, b, c), ChainSrc(a, b, c),
                       NegatedSrc(a, b, c)} :
                      a \in ExprOperands, b \in ExprOperands, c \in ExprOperands}

RunExpr == \E src \in ExprSources : interprets = 0 /\ Interpret(src)

NextExpr == RunExpr \/ Step

SpecExpr == Init /\ [][NextExpr]_vars

\* C12: the code emitted for an expression applies a tighter-binding operator
\* first, operators of one level from left to right, and a parenthesized
\* operand before the operator around it: a + b * c prints a + (b * c),
\* (a + b) * c prints (a + b) * c, a - b - c prints (a - b) - c, and
\* -a * b + c prints ((-a) * b) + c.
C12_PrecedenceOrder ==
    \A a \in ExprOperands, b \in ExprOperands, c \in ExprOperands :
        status = "idle" =>
            /\ source = MixedSrc(a, b, c) => stdout = <<FormatNumber(a + (b * c))>>
            /\ source = GroupedSrc(a, b, c) => stdout = <<FormatNumber((a + b) * c)>>
            /\ source = ChainSrc(a, b, c) => stdout = <<FormatNumber((a - b) - c)>>
            /\ source = NegatedSrc(a, b, c) => stdout = <<FormatNumber(((0 - a) * b) + c)>>

\* 8 - 3 - 2 has printed 3
C12_Witness ==
    /\ status = "idle"
    /\ result = "ok"
    /\ source = ChainSrc(8, 3, 2)
    /\ stdout = <<"3">>

(***************************************************************************)
(* Jumps: scripts whose if and loop statements jump over bodies of 0 to    *)
(* 128 statements of 2 bytes each, so that the distances lie on both sides *)
(* of 255.                                                                 *)
(***************************************************************************)
\* a statement that compiles to Nil and the print opcode: 2 bytes, no constant
FillerSrc == "print nil; "

\* 125 fillers put the exit of the then branch 254 bytes ahead, 126 put it 256
\* bytes ahead; 128 fillers put the end of the else branch 257 bytes ahead
BodySizes == {0, 1, 125, 126}

ElseSizes == {0, 128}

IfElseSrc(cond, n, m) == "if (" \o cond \o ") { " \o Repeat(FillerSrc, n) \o "} else { "
                         \o Repeat(FillerSrc, m) \o "} print 7;"

LongWhileSrc(n) == "var i = 0; while ((i = i + 1) < 3) { " \o Repeat(FillerSrc, n) \o "}"

LongForSrc(n) == "for (var i = 0; i < 2; i = i + 1) { " \o Repeat(FillerSrc, n) \o "}"

JumpSources == {IfElseSrc(cond, n, m) : cond \in {"true", "false"}, n \in BodySizes,
                                        m \in ElseSizes}
               \cup {LongWhileSrc(n) : n \in BodySizes}
               \cup {LongForSrc(n) : n \in BodySizes}

RunJump == \E src \in JumpSources : interprets = 0 /\ Interpret(src)

NextJump == RunJump \/ Step

SpecJump == Init /\ [][NextJump]_vars

\* the active frame is about to dispatch the instruction op at code offset at
Pending(op, at) ==
    /\ status = "running"
    /\ frame(VM).ip = at
    /\ byte_read(VM) = op

\* the dispatch leaves the active frame at code offset at
Lands(at) ==
    /\ status' = "running"
    /\ Len(frames') = Len(frames)
    /\ frames'[Len(frames')].ip = at

\* the code offsets that if_statement, while_statement and for_statement pass
\* to patch_jump and emit_loop, and the chunk ends at which they do it:
\*   if (c) { n fillers } else { m fillers }
\*       0 c; 1 JumpIfFalse; 4 Pop; 5 then; 5+2n Jump; 8+2n Pop; 9+2n else;
\*       9+2n+2m end
\*   var i = 0; while ((i = i + 1) < 3) { n fillers }
\*       0 var; 4 condition; 14 JumpIfFalse; 17 Pop; 18 body; 18+2n Loop;
\*       21+2n Pop
\*   for (var i = 0; i < 2; i = i + 1) { n fillers }
\*       0 var; 2 condition; 7 JumpIfFalse; 10 Jump; 13 increment; 21 Loop;
\*       24 body; 24+2n Loop; 27+2n end
IfJumps(n, m) ==
    /\ (Pending(OpCode.JumpIfFalse, 1) /\ is_falsey(vm_top(VM))) => Lands(8 + 2 * n)
    /\ Pending(OpCode.Jump, 5 + 2 * n) => Lands(9 + 2 * n + 2 * m)

WhileJumps(n) ==
    /\ (Pending(OpCode.JumpIfFalse, 14) /\ is_falsey(vm_top(VM))) => Lands(21 + 2 * n)
    /\ Pending(OpCode.Loop, 18 + 2 * n) => Lands(4)

ForJumps(n) ==
    /\ (Pending(OpCode.JumpIfFalse, 7) /\ is_falsey(vm_top(VM))) => Lands(27 + 2 * n)
    /\ Pending(OpCode.Jump, 10) => Lands(24)
    /\ Pending(OpCode.Loop, 21) => Lands(2)
    /\ Pending(OpCode.Loop, 24 + 2 * n) => Lands(13)

\* C13: a patched Jump, and a patched JumpIfFalse that finds a falsey value,
\* moves the instruction pointer to the offset at which the chunk ended when
\* patch_jump ran, and a Loop moves it to the loop start handed to emit_loop,
\* for distances below and above 255.
C13_JumpsLand ==
    [][\A n \in BodySizes :
          /\ \A m \in ElseSizes, cond \in {"true", "false"} :
                source = IfElseSrc(cond, n, m) => IfJumps(n, m)
          /\ source = LongWhileSrc(n) => WhileJumps(n)
          /\ source = LongForSrc(n) => ForJumps(n)]_vars

\* the exit jump of a while loop with a body of more than 255 bytes has been
\* taken, after the Loop instruction went back twice
C13_Witness ==
    /\ status = "running"
    /\ source = LongWhileSrc(126)
    /\ frame(VM).ip = 21 + 2 * 126
    /\ Len(stdout) = 2 * 126

(***************************************************************************)
(* Syntax errors: scripts of one to MaxStatements statements, each of      *)
(* which is well formed or holds one syntax error, some followed by        *)
(* further malformed text in the same statement.                           *)
(***************************************************************************)
MaxStatements == 3

\* a well-formed statement; a missing expression; a missing variable name; a
\* missing operand followed by a missing semicolon; a missing semicolon followed
\* by a character that is no token
GoodStatement == "print 1;"

ErrorStatements == {"print ;", "var = 2;", "print 1 + * 2 3;", "print 1 1 @ 2;"}

\* the report of the first syntax error of a statement
FirstError(stmt) ==
    CASE stmt = "print ;" -> <<"[line 1] Error at ';': Expect expression">>
      [] stmt = "var = 2;" -> <<"[line 1] Error at '=': Expect variable name">>
      [] stmt = "print 1 + * 2 3;" -> <<"[line 1] Error at '*': Expect expression">>
      [] stmt = "print 1 1 @ 2;" -> <<"[line 1] Error at '1': Expect ';' after value">>
      [] OTHER -> <<>>

StatementLists == UNION {[1..k -> ErrorStatements \cup {GoodStatement}] : k \in 1..MaxStatements}

RECURSIVE JoinStatements(_)
JoinStatements(stmts) ==
    IF stmts = <<>> THEN "" ELSE Head(stmts) \o " " \o JoinStatements(Tail(stmts))

RECURSIVE FirstErrors(_)
FirstErrors(stmts) ==
    IF stmts = <<>> THEN <<>> ELSE FirstError(Head(stmts)) \o FirstErrors(Tail(stmts))

RunStatements == \E stmts \in StatementLists : interprets = 0 /\ Interpret(JoinStatements(stmts))

NextErrors == RunStatements \/ Step

SpecErrors == Init /\ [][NextErrors]_vars

\* C14: one compile call reports, for every statement that holds a syntax
\* error, the first error of that statement and nothing else: what follows the
\* error inside the statement is skipped in silence, and an error in a later
\* statement is reported again.
C14_OneErrorPerStatement ==
    \A stmts \in StatementLists :
        (interprets = 1 /\ source = JoinStatements(stmts)) => stderr = FirstErrors(stmts)

(***************************************************************************)
(* Recursion: lines typed into the repl that call a function from its own  *)
(* body, directly and through a second function, without end.              *)
(***************************************************************************)
RecursionSources == {"fun f() { f(); } f();",
                     "fun a(n) { b(n); } fun b(n) { a(n); } a(1);",
                     "print 1;"}

InterpretRecursion == \E src \in RecursionSources : Interpret(src)

NextRecursion == InterpretRecursion \/ Step

SpecRecursion == Init /\ [][NextRecursion]_vars

\* C15: the VM never holds more than FRAMES_MAX frames: a Call of a function
\* with the right number of arguments that is dispatched when FRAMES_MAX frames
\* exist ends the interpret call with the RuntimeError "Stack overflow!" and
\* pushes no frame, which is how a recursion without end stops.
C15_FramesBounded ==
    /\ [](Len(frames) <= FRAMES_MAX)
    /\ [][(CallPending /\ CalleeIsFunction /\ PendingArity = PendingArgCount
           /\ Len(frames) = FRAMES_MAX)
             => /\ status' = "idle"
                /\ result' = "runtime_error"
                /\ last_error'.message = "Stack overflow!"
                /\ frames' = [frames EXCEPT ![FRAMES_MAX].ip = @ + 2]]_vars

\* the recursion through two functions has stopped at the limit
C15_Witness ==
    /\ status = "idle"
    /\ result = "runtime_error"
    /\ last_error.message = "Stack overflow!"
    /\ Len(frames) = FRAMES_MAX
    /\ source = "fun a(n) { b(n); } fun b(n) { a(n); } a(1);"
    /\ interprets = 1

(***************************************************************************)
(* Globals: lines typed into the repl that read, assign and define the     *)
(* globals x and y.                                                        *)
(***************************************************************************)
GlobalSources == {"y = 1;", "print y;", "var x = 2;", "x = 3; print x;", "print x; x = 4;"}

InterpretGlobal == \E src \in GlobalSources : Interpret(src)

NextGlobal == InterpretGlobal \/ Step

SpecGlobal == Init /\ [][NextGlobal]_vars

\* the active frame is about to dispatch the instruction op
PendingOp(op) ==
    /\ status = "running"
    /\ byte_read(VM) = op

\* the name operand of the pending GetGlobal, DefineGlobal or SetGlobal
PendingName == read_string(read_byte(VM)).val

\* C16: GetGlobal and SetGlobal of a name without an entry in the global
\* table end the interpret call with a RuntimeError and leave the table as it
\* was; the set of names in the table changes only when DefineGlobal is
\* dispatched.
C16_UndefinedGlobals ==
    [][/\ ((PendingOp(OpCode.GetGlobal) \/ PendingOp(OpCode.SetGlobal))
           /\ PendingName \notin DOMAIN globals)
              => /\ status' = "idle"
                 /\ result' = "runtime_error"
                 /\ globals' = globals
       /\ (DOMAIN globals' # DOMAIN globals) => PendingOp(OpCode.DefineGlobal)]_vars

\* `print y;` has failed after `y = 1;` had failed and left its 1 on the stack
C16_Witness ==
    /\ status = "idle"
    /\ result = "runtime_error"
    /\ source = "print y;"
    /\ interprets = 2
    /\ stack_top = 3
    /\ stack[2] = Number(1)
    /\ globals = <<>>

(***************************************************************************)
(* Operand kinds: scripts that apply every arithmetic and comparison       *)
(* operator to every pair of nil, a Bool, a Number, a string and a         *)
(* function, and negate each of them.                                      *)
(***************************************************************************)
OperandSources == {"nil", "true", "1", "\"a\"", "f"}

OperatorSources == {"+", "-", "*", "/", ">", "<"}

BinarySrc(l, op, r) == "fun f() {} print " \o l \o " " \o op \o " " \o r \o ";"

NegateSrc(l) == "fun f() {} print -" \o l \o ";"

KindSources == {BinarySrc(l, op, r) : l \in OperandSources, op \in OperatorSources,
                                      r \in OperandSources}
               \cup {NegateSrc(l) : l \in OperandSources}

RunKinds == \E src \in KindSources : interprets = 0 /\ Interpret(src)

NextKinds == RunKinds \/ Step

SpecKinds == Init /\ [][NextKinds]_vars

NumericOps == {OpCode.Subtract, OpCode.Multiply, OpCode.Divide, OpCode.Greater, OpCode.Less}

IsNumberValue(v) == v.t = "Number"

\* the dispatch pops taken operands and pushes one value
PushesResult(taken) ==
    /\ status' = "running"
    /\ stack_top' = stack_top - taken + 1

\* the dispatch ends the interpret call with a RuntimeError
YieldsRuntimeError ==
    /\ status' = "idle"
    /\ result' = "runtime_error"

\* C17: Subtract, Multiply, Divide, Greater and Less push a result when both
\* operands are Numbers and yield a RuntimeError otherwise; Add pushes a result
\* for two Numbers and for two strings and yields a RuntimeError for every
\* other pair; Negate pushes a result for a Number and yields a RuntimeError
\* otherwise.
C17_OperandKinds ==
    [][/\ (\E op \in NumericOps : PendingOp(op))
             => IF IsNumberValue(vm_peek(VM, 1)) /\ IsNumberValue(vm_peek(VM, 0))
                THEN PushesResult(2) /\ stack'[stack_top'].t \in {"Number", "Bool"}
                ELSE YieldsRuntimeError
       /\ PendingOp(OpCode.Add)
             => IF IsNumberValue(vm_peek(VM, 1)) /\ IsNumberValue(vm_peek(VM, 0))
                THEN PushesResult(2) /\ IsNumberValue(stack'[stack_top'])
                ELSE IF IsStringValue(vm_peek(VM, 1)) /\ IsStringValue(vm_peek(VM, 0))
                THEN PushesResult(2) /\ stack'[stack_top'].t = "Obj"
                ELSE YieldsRuntimeError
       /\ PendingOp(OpCode.Negate)
             => IF IsNumberValue(vm_peek(VM, 0))
                THEN PushesResult(1) /\ IsNumberValue(stack'[stack_top'])
                ELSE YieldsRuntimeError]_vars

\* a Number minus a string has failed
C17_Witness ==
    /\ status = "idle"
    /\ result = "runtime_error"
    /\ source = BinarySrc("1", "-", "\"a\"")
    /\ last_error.message = "Operands must be numbers."

(***************************************************************************)
(* Traces: lines typed into the repl that fail a runtime check in the      *)
(* script, in a function, and in a function called by a function, each on  *)
(* a source line of its own.                                               *)
(***************************************************************************)
ScriptFaultSrc == "print 1;\nprint x;"

FunctionFaultSrc == "fun f() {\n  print -nil;\n}\nf();"

NestedFaultSrc == "fun g(a) {\n  a();\n}\nfun h() {\n  g(1);\n}\n\nh();"

TraceSources == {ScriptFaultSrc, FunctionFaultSrc, NestedFaultSrc, "print 1;"}

\* the calls that are active when the program fails, innermost first, each with
\* the line of the instruction it is at
ActiveCalls(src) ==
    CASE src = ScriptFaultSrc -> <<<<2, "script">>>>
      [] src = FunctionFaultSrc -> <<<<2, "f()">>, <<4, "script">>>>
      [] src = NestedFaultSrc -> <<<<2, "g()">>, <<5, "h()">>, <<8, "script">>>>

InterpretTrace == \E src \in TraceSources : Interpret(src)

NextTrace == InterpretTrace \/ Step

SpecTrace == Init /\ [][NextTrace]_vars

\* C18: the RuntimeError of a failed interpret call carries one (line, name)
\* entry per call that is active at the failure, the innermost call first and
\* the script last, the first with the line of the failing instruction and the
\* others with the line of the Call they wait at.
C18_CallStackTrace ==
    (status = "idle" /\ result = "runtime_error" /\ source # "print 1;")
        => last_error.call_stack = ActiveCalls(source)

(***************************************************************************)
(* A repl session: the first line defines the global x, the second line    *)
(* succeeds, fails at run time or fails to compile, and every further line *)
(* adds one to x and prints it.                                            *)
(***************************************************************************)
MaxLines == 65

DefineSrc == "var x = 1;"

SecondLines == {"print 2;", "print y;", "var = ;"}

IncrementSrc == "x = x + 1; print x;"

SessionLine ==
    /\ interprets < MaxLines
    /\ \E src \in (CASE interprets = 0 -> {DefineSrc}
                     [] interprets = 1 -> SecondLines
                     [] OTHER -> {IncrementSrc}) : InterpretCall(src)

NextSession == SessionLine \/ Step

SpecSession == Init /\ [][NextSession]_vars

\* C19: a global defined by one interpret call is readable and assignable in
\* every later interpret call on the same VM, whatever became of the calls in
\* between: each line after the second finds x, adds one to it and prints it.
C19_GlobalsPersist ==
    (status = "idle" /\ interprets >= 3)
        => (result = "ok" /\ stdout = <<FormatNumber(interprets - 1)>>)

(***************************************************************************)
(* Stack balance: scripts of one statement of each kind, run on a new VM.  *)
(* The script's function object is the one value below the statement.      *)
(***************************************************************************)
CountedWhileSrc == "var n = 0; while (n < 2) n = n + 1;"

CountedForSrc == "for (var i = 0; i < 2; i = i + 1) print i;"

ConditionOnlyForSrc == "var k = 0; for (; k < 2;) k = k + 1;"

EndlessForSrc == "for (;;) { var a = 1; }"

BalanceSources == {"1 + 2;", "print 1;",
                   "if (true) print 1; else print 2;", "if (false) print 1; else print 2;",
                   "if (false) print 1;", "{ var a = 1; var b = a; print b; }",
                   CountedWhileSrc, CountedForSrc, ConditionOnlyForSrc, EndlessForSrc}

RunBalance == \E src \in BalanceSources : interprets = 0 /\ Interpret(src)

NextBalance == RunBalance \/ Step

SpecBalance == Init /\ [][NextBalance]_vars

\* the code offset at which an iteration of the loop of src begins, and the
\* stack height there when the loop is entered
LoopTop(src) ==
    CASE src = CountedWhileSrc -> [at |-> 4, height |-> 1]
      [] src = CountedForSrc -> [at |-> 2, height |-> 2]
      [] src = ConditionOnlyForSrc -> [at |-> 4, height |-> 1]
      [] src = EndlessForSrc -> [at |-> 0, height |-> 1]

\* C20: the code of a statement leaves the operand stack as high as it found
\* it: a script of one statement ends with only its function object on the
\* stack, and every iteration of a loop begins at the height at which the loop
\* was entered.
C20_StatementsBalanced ==
    /\ (status = "idle" /\ interprets = 1) => (result = "ok" /\ stack_top = 1)
    /\ \A src \in {CountedWhileSrc, CountedForSrc, ConditionOnlyForSrc, EndlessForSrc} :
          (status = "running" /\ source = src /\ frame(VM).ip = LoopTop(src).at)
              => stack_top = LoopTop(src).height

(***************************************************************************)
(* Local slots: scripts whose parameters and block locals each hold one    *)
(* number for as long as they live.                                        *)
(***************************************************************************)
ParamSrc == "fun f(a, b, c) { print c; print a; print b; } f(4, 5, 6);"

NestedLocalSrc == "{ var a = 4; { var b = 5; print a; print b; } print a; }"

WhileLocalSrc == "var i = 0; while ((i = i + 1) < 3) { var j = 7; print j; }"

ForLocalSrc == "for (var i = 0; i < 2; i = i + 1) { var j = 7; print j; }"

LocalSources == {ParamSrc, NestedLocalSrc, WhileLocalSrc, ForLocalSrc}

\* the number the source stores in the variable that resolve_local gives slot k
StoredIn(src) ==
    CASE src = ParamSrc -> (1 :> 4) @@ (2 :> 5) @@ (3 :> 6)
      [] src = NestedLocalSrc -> (1 :> 4) @@ (2 :> 5)
      [] src = WhileLocalSrc -> (1 :> 7)
      [] src = ForLocalSrc -> (2 :> 7)

RunLocals == \E src \in LocalSources : interprets = 0 /\ Interpret(src)

NextLocals == RunLocals \/ Step

SpecLocals == Init /\ [][NextLocals]_vars

\* the slot operand of the pending GetLocal or SetLocal
PendingSlot == byte_read(read_byte(VM))

\* C21: a GetLocal of slot k pushes the value of the variable that the
\* compiler resolved to slot k (the j-th parameter is the j-th argument, a
\* local of a block or loop body is the value last stored in it, in every
\* iteration), and slot 0 of the active frame holds the callee.
C21_LocalSlots ==
    /\ [](status = "running" => stack[frame(VM).fp + 1] = Obj(frame(VM).function))
    /\ [][(PendingOp(OpCode.GetLocal) /\ PendingSlot \in DOMAIN StoredIn(source))
             => /\ stack_top' = stack_top + 1
                /\ stack'[stack_top'] = Number(StoredIn(source)[PendingSlot])]_vars

(***************************************************************************)
(* Jump distances at the 16-bit limit: an if or while statement whose      *)
(* body is a block of n statements `nil; `, followed or not by one         *)
(* `!nil; `, so that the distances take odd and even values.               *)
(***************************************************************************)
\* the short bodies have 0..MaxShort statements `nil; `
MaxShort == 2

\* the bytes of the body: two per `nil; `, three for the `!nil; `
BodyBytes(c) == 2 * c.n + (IF c.odd THEN 3 ELSE 0)

\* the distance of the forward jump over the body: the Pop before it, the
\* body, and the Jump or Loop instruction after it
ForwardDistance(c) == BodyBytes(c) + 4

\* the distance of the Loop of a while statement: back over its own operand,
\* the body, the Pop and JumpIfFalse, and the condition
LoopDistance(c) == BodyBytes(c) + 8

TooFar(c) ==
    \/ ForwardDistance(c) > JUMP_MAX
    \/ c.keyword = "while" /\ LoopDistance(c) > JUMP_MAX

\* bodies that put a distance at JUMP_MAX and just above it
LongCases ==
    {[keyword |-> "if", cond |-> "false", n |-> 32764, odd |-> TRUE],
     [keyword |-> "if", cond |-> "false", n |-> 32766, odd |-> FALSE],
     [keyword |-> "while", cond |-> "false", n |-> 32762, odd |-> TRUE],
     [keyword |-> "while", cond |-> "false", n |-> 32764, odd |-> FALSE],
     [keyword |-> "while", cond |-> "false", n |-> 32764, odd |-> TRUE]}

ShortCases ==
    [keyword : {"if", "while"}, cond : {"true", "false"}, n : 0..MaxShort, odd : BOOLEAN]

LimitCases == LongCases \cup ShortCases

LimitSrc(c) ==
    c.keyword \o " (" \o c.cond \o ") { " \o Repeat("nil; ", c.n)
    \o (IF c.odd THEN "!nil; " ELSE "") \o "}"

\* the number of characters of LimitSrc(c)
LimitLen(c) ==
    Len(c.keyword) + Len(c.cond) + 7 + 5 * c.n + (IF c.odd THEN 6 ELSE 0)

\* the script of the interpret call is LimitSrc(c)
IsLimitSrc(c) == Len(source) = LimitLen(c) /\ source = LimitSrc(c)

\* run_file of such a script
RunLimit ==
    \E c \in LimitCases :
        /\ interprets = 0
        /\ status = "idle"
        /\ Becomes(interpret_compiled(VM, compile_from_body_end(c.keyword, c.cond, c.n, c.odd,
                                                              heap, overflow_checks)))
        /\ source' = LimitSrc(c)
        /\ interprets' = interprets + 1
        /\ UNCHANGED <<overflow_checks, handles, parser, phase, global, walker>>

NextLimit == RunLimit \/ Step

SpecLimit == Init /\ [][NextLimit]_vars

\* the code of the script of the interpret call
ScriptCode == borrow(heap, frames[1].function).function.chunk.code

\* the two operand bytes at offset at of ScriptCode, as the number they encode
OperandAt(at) == ScriptCode[at + 1] * 256 + ScriptCode[at + 2]

\* C22: a script with a forward jump or a loop distance above 65535 fails to
\* compile and is never run; with every distance up to 65535 it compiles
\* and the operands of its JumpIfFalse and Loop are the distances, 0xFF 0xFF
\* for 65535.  The scripts are compiled as compile compiles them.
C22_JumpLimit ==
    /\ interprets = 0 =>
          \A c \in ShortCases :
              compile_from_body_end(c.keyword, c.cond, c.n, c.odd, heap, overflow_checks)
                 = compile(LimitSrc(c), heap, overflow_checks)
    /\ \A c \in LimitCases :
          (interprets = 1 /\ IsLimitSrc(c)) =>
              IF TooFar(c)
              THEN /\ status = "idle"
                   /\ result = "compile_error"
                   /\ frames = <<>>
              ELSE /\ result # "compile_error"
                   /\ OperandAt(2) = ForwardDistance(c)
                   /\ c.keyword = "while" =>
                         OperandAt(BodyBytes(c) + 6) = LoopDistance(c)
                   /\ ForwardDistance(c) = JUMP_MAX =>
                         ScriptCode[3] = 255 /\ ScriptCode[4] = 255

\* the if statement whose JumpIfFalse had to jump over 65536 bytes was refused
C22_Witness ==
    /\ status = "idle"
    /\ result = "compile_error"
    /\ stderr = <<"[line 1] Error at '}': Too much code to jump over">>
    /\ \E c \in LongCases :
          c.keyword = "if" /\ ForwardDistance(c) = JUMP_MAX + 1 /\ IsLimitSrc(c)

(***************************************************************************)
(* Argument counts: calls of a function without parameters with k          *)
(* arguments `nil`, for k around the 255 that the operand of Call holds.   *)
(***************************************************************************)
ArgCounts == {0, 1, 2, U8_MAX - 1, U8_MAX, U8_MAX + 1, U8_MAX + 2}

ArgsSrc(k) ==
    "fun f() {} f(" \o (IF k = 0 THEN "" ELSE Repeat("nil,", k - 1) \o "nil") \o ");"

RunArgs == \E k \in ArgCounts : interprets = 0 /\ Interpret(ArgsSrc(k))

NextArgs == RunArgs \/ Step

SpecArgs == Init /\ [][NextArgs]_vars

\* C23: a call with more than 255 arguments is reported as a compile error
\* and the compile call returns failure; with k <= 255 arguments the script
\* compiles and the operand of its Call instruction is k.
C23_ArgumentCount ==
    \A k \in ArgCounts :
        (interprets = 1 /\ source = ArgsSrc(k)) =>
            IF k <= U8_MAX
            THEN /\ status # "crashed"
                 /\ result # "compile_error"
                 /\ ScriptCode[k + 7] = OpCode.Call
                 /\ ScriptCode[k + 8] = k
            ELSE /\ status = "idle"
                 /\ result = "compile_error"
                 /\ stderr = <<"[line 1] Error at 'nil': Cannot have more than 255 arguments.">>

(***************************************************************************)
(* Compile calls followed step by step.  The sources of each group of      *)
(* claims are listed with the claims; CompileSources is their union.       *)
(***************************************************************************)
\* the declarations `var v<lo>; ... var v<hi>; `
RECURSIVE VarsSrc(_, _)
VarsSrc(lo, hi) ==
    IF lo > hi THEN ""
    ELSE IF lo = hi THEN "var v" \o FormatNumber(lo) \o "; "
    ELSE VarsSrc(lo, (lo + hi) \div 2) \o VarsSrc((lo + hi) \div 2 + 1, hi)

\* a block that declares n locals and then has the declarations last; with
\* slot 0 that makes n + 1 entries in the local list before last
BlockOfLocalsSrc(n, last) == "{ " \o VarsSrc(1, n) \o last \o " } print 1;"

LastDeclarations == {"var w;", "var w = 1; var u;", "{ var w; }", "fun g() {}"}

\* one entry below the capacity of the list, and the list full
FullSources ==
    {BlockOfLocalsSrc(n, last) : n \in {LOCALS_MAX - 2, LOCALS_MAX - 1},
                                 last \in LastDeclarations}

\* locals initialized from themselves, from an outer variable, from another local
InitializerSources ==
    {"{ var x = x; }",
     "var x = 1; { var x = x; }",
     "{ var x = 1; { var x = x; } }",
     "{ var y = 2; var x = y + x * 2; }",
     "{ var a = 1; var b = a; { var c = a + b; } }"}

\* a name declared again in the scope of its first declaration
RedeclaringSources ==
    {"{ var a; var a; }",
     "{ var a = 1; { var b; } var a; }",
     "{ fun a() {} var a; }",
     "fun f(a) { var a; }",
     "fun f(a, a) {}"}

\* a name declared again in a nested scope, in a later scope, in another function
ShadowingSources ==
    {"{ var a; { var a; } }",
     "{ var a; } { var a; }",
     "{ var a; { fun a() {} } }",
     "fun f(a) { { var a; } }",
     "{ var a; fun g() { var a; } }"}

\* function declarations at the top level and in blocks, some with a compile
\* error in the body
NestedSources ==
    {"var g = 1; fun f(a, b) { var c = a + b; print c; } print g;",
     "{ var x = 1; var y = 2; fun f(a) { var z = a; print z + 3; } print x; }",
     "{ var x = 1; fun f() { var a = ; print 2; } print x; }",
     "fun f() { fun g(a) { print a } } print 2;",
     "{ var x; { var y; fun f(x) { x = 1; fun h() { print x; } } } var z; }"}

\* a function f that reads or writes x, where x is a local of the block or
\* function around f, and where x is a parameter or local of f
BlockLocalReadSrc == "{ var x = 1; fun f() { print x; } }"

BlockLocalWriteSrc == "{ var x = 1; fun f() { x = 2; } }"

OuterParameterSrc == "fun outer(x) { fun f() { print x; } }"

OuterLocalSrc == "fun outer() { var x = 1; { fun f() { { print x; } } } }"

OwnParameterSrc == "{ var x = 1; fun f(x) { print x; } }"

OwnLocalSrc == "{ var x = 1; fun f() { var x = 3; print x; } }"

FreeNameSources ==
    {BlockLocalReadSrc, BlockLocalWriteSrc, OuterParameterSrc, OuterLocalSrc,
     OwnParameterSrc, OwnLocalSrc}

CompileSources ==
    FullSources \cup InitializerSources \cup RedeclaringSources \cup ShadowingSources
        \cup NestedSources \cup FreeNameSources

CompileSource == \E src \in CompileSources : CompileBegin(src)

NextCompile == CompileSource \/ CompileStep

SpecCompile == Init /\ [][NextCompile]_vars

\* the local list is full
ListFull == Len(parser.compiler.locals) = LOCALS_MAX

\* the step begins a var or fun declaration
DeclarationBegins == phase = "declaration" /\ phase' \in {"initializer", "function"}

\* the step belongs to a var or fun declaration that began with the list full
\* (a var declaration that has added its local is the one with depth -1)
DeclarationStep ==
    \/ DeclarationBegins
    \/ /\ phase \in {"initializer", "define"}
       /\ parser.compiler.locals[LOCALS_MAX].depth # -1
    \/ phase \in {"function", "defined"}

\* C24: the local list of a function never holds more than 256 entries, and a
\* declaration made while the list is full reports a compile error and
\* leaves every entry of the list, its name and its depth, as it was.
C24_LocalsBounded ==
    /\ [](Len(parser.compiler.locals) <= LOCALS_MAX)
    /\ [][/\ (ListFull /\ DeclarationBegins) => parser'.had_error
          /\ (ListFull /\ DeclarationStep)
                => parser'.compiler.locals = parser.compiler.locals]_vars

(***************************************************************************)
(* The depth of a local between its declaration and its definition.        *)
(***************************************************************************)
\* the locals that are declared and not yet initialized
Uninitialized ==
    {i \in 1..Len(parser.compiler.locals) : parser.compiler.locals[i].depth = -1}

\* the names of the identifier tokens from the current token of p up to the
\* `;` that ends the declaration
RECURSIVE InitializerNames(_)
InitializerNames(p) ==
    IF p.crashed \/ p.current.typ \in {"Semicolon", "EOF"} THEN {}
    ELSE (IF p.current.typ = "Identifier" THEN {p.current.str} ELSE {})
         \cup InitializerNames(advance(p))

\* the step declares a local: var_declaration up to the initializer, in a
\* scope, with room in the list
DeclaresLocal ==
    /\ phase = "declaration" /\ phase' = "initializer"
    /\ parser.compiler.scope_depth > 0
    /\ ~ListFull

\* the step compiles the initializer of a local, and the initializer names
\* the local
ReadsOwnName ==
    /\ phase = "initializer" /\ phase' = "define"
    /\ check(parser, "Equal")
    /\ Uninitialized # {}
    /\ parser.compiler.locals[Len(parser.compiler.locals)].name.str
           \in InitializerNames(advance(parser))

\* the initializer is the name of the local and nothing before it
BeginsWithOwnName ==
    /\ ReadsOwnName
    /\ advance(advance(parser)).previous.typ = "Identifier"
    /\ advance(advance(parser)).previous.str
           = parser.compiler.locals[Len(parser.compiler.locals)].name.str

OwnInitializerError(token) ==
    "[line " \o FormatNumber(token.line) \o "] Error at '" \o token.str
        \o "': Cannot read local variable in its own initializer"

\* C25: a local has depth -1 from its declaration until its initializer is
\* compiled and it is defined; naming it in its own initializer is a compile
\* error, whatever outer variable has the same name; and at any other point of
\* the compile no local has depth -1.
C25_OwnInitializer ==
    /\ [](Uninitialized \subseteq
              (IF phase \in {"initializer", "define"}
               THEN {Len(parser.compiler.locals)} ELSE {}))
    /\ [][/\ DeclaresLocal =>
                parser'.compiler.locals
                    = Append(parser.compiler.locals, Local(parser'.previous, -1))
          /\ (phase = "initializer" /\ phase' = "define") =>
                parser'.compiler.locals = parser.compiler.locals
          /\ (phase = "define" /\ phase' = "declaration" /\ Uninitialized # {}) =>
                parser'.compiler.locals
                    = [parser.compiler.locals EXCEPT ![Len(parser.compiler.locals)].depth
                                                         = parser.compiler.scope_depth]
          /\ ReadsOwnName => parser'.had_error
          /\ (BeginsWithOwnName /\ ~parser.panic_mode) =>
                /\ Len(parser'.stderr) = Len(parser.stderr) + 1
                /\ parser'.stderr[Len(parser'.stderr)]
                       = OwnInitializerError(advance(advance(parser)).previous)]_vars

\* the initializer of the inner x, which names x, is compiled: the error is
\* reported although a global x exists, and x is still uninitialized
C25_Witness ==
    /\ phase = "define"
    /\ parser.scanner.source = "var x = 1; { var x = x; }"
    /\ Uninitialized = {2}
    /\ parser.had_error
    /\ parser.stderr
           = <<"[line 1] Error at 'x': Cannot read local variable in its own initializer">>

(***************************************************************************)
(* A name declared twice.                                                  *)
(***************************************************************************)
\* the token after the `var` or `fun` at which the parser stands
NameToken == advance(parser).current

\* the step declares the local NameToken: a var or fun declaration in a scope
DeclaresName ==
    /\ DeclarationBegins
    /\ parser.compiler.scope_depth > 0
    /\ NameToken.typ = "Identifier"

\* the function being compiled has a local of that name declared at the
\* current scope depth
InSameScope ==
    Bind(NameToken.str, LAMBDA str :
       \E i \in 1..Len(parser.compiler.locals) :
           /\ parser.compiler.locals[i].name.str = str
           /\ parser.compiler.locals[i].depth = parser.compiler.scope_depth)

RedeclaredError(token) ==
    "[line " \o FormatNumber(token.line) \o "] Error at '" \o token.str
        \o "': Variable with this name already declared in this scope"

\* C26: declaring a local whose name is that of a local of the same scope of
\* the same function, a parameter redeclared in the body of its function
\* included, is a compile error; the same name declared in a nested scope,
\* in a scope that follows, or in another function is accepted.
C26_Redeclaration ==
    /\ [][DeclaresName =>
             IF InSameScope
             THEN /\ parser'.had_error
                  /\ ~parser.panic_mode =>
                        parser'.stderr = Append(parser.stderr, RedeclaredError(NameToken))
             ELSE ~ListFull =>
                  /\ parser'.had_error = parser.had_error
                  /\ parser'.stderr = parser.stderr]_vars
    /\ [](phase = "done" =>
            /\ parser.scanner.source \in RedeclaringSources =>
                  /\ parser.had_error
                  /\ parser.stderr = <<RedeclaredError([line |-> 1, str |-> "a"])>>
            /\ parser.scanner.source \in ShadowingSources =>
                  /\ ~parser.had_error
                  /\ parser.stderr = <<>>)

\* the second `var a` of the block is declared: the error is reported
C26_Witness ==
    /\ phase = "initializer"
    /\ parser.scanner.source = "{ var a; var a; }"
    /\ parser.had_error
    /\ parser.stderr = <<RedeclaredError([line |-> 1, str |-> "a"])>>

(***************************************************************************)
(* Scopes: scripts that open scopes and then print 9 at the top level,     *)
(* compiled step by step or interpreted.                                   *)
(***************************************************************************)
ScopeSources ==
    {"{ var a = 1; var b = 2; } print 9;",
     "{ var a = 1; { var b = 2; var c = 3; } var d = 4; } print 9;",
     "{ var a = 1; fun g(x) { var b = x; { var c = b; } } { g(a); } } print 9;",
     "var n = 0; while (n < 2) { var j = n; n = n + 1; } print 9;",
     "for (var i = 0; i < 2; i = i + 1) { var j = i; } print 9;"}

CompileScopes == \E src \in ScopeSources : interprets = 0 /\ CompileBegin(src)

RunScopes == \E src \in ScopeSources : phase = "idle" /\ interprets = 0 /\ Interpret(src)

NextScopes == CompileScopes \/ CompileStep \/ RunScopes \/ Step

SpecScopes == Init /\ [][NextScopes]_vars

\* the step is the end of a block statement: end_scope runs
ScopeEnds ==
    /\ phase = "declaration"
    /\ parser.compiler.scope_depth > 0
    /\ check(parser, "RightBrace")

\* the locals of the scope being left
LeavingScope ==
    {i \in 1..Len(parser.compiler.locals) :
        parser.compiler.locals[i].depth >= parser.compiler.scope_depth}

\* the code that the step adds to the chunk being compiled
EmittedCode ==
    SubSeq(parser'.compiler.function.chunk.code,
           code_len(parser) + 1, code_len(parser'))

\* the script is about to print the 9 that follows its scopes
PrintsNine ==
    /\ status = "running"
    /\ Len(frames) = 1
    /\ byte_read(VM) = OpCode.OpPrint
    /\ stack[stack_top] = Number(9)

\* C27: end_scope removes exactly the locals of the scope being left and
\* emits one Pop for each; afterwards no local is deeper than the current
\* scope and the locals of the enclosing scopes are as they were; and at run
\* time the stack is as high after a scope as it was before it (at the top
\* level: the script's slot, and the 9 about to be printed).
C27_ScopeBalance ==
    /\ [][ScopeEnds =>
             /\ parser'.compiler.scope_depth = parser.compiler.scope_depth - 1
             /\ parser'.compiler.locals
                    = SubSeq(parser.compiler.locals, 1,
                             Len(parser.compiler.locals) - Cardinality(LeavingScope))
             /\ \A i \in 1..Len(parser'.compiler.locals) :
                    /\ i \notin LeavingScope
                    /\ parser'.compiler.locals[i].depth <= parser'.compiler.scope_depth
             /\ EmittedCode = [i \in 1..Cardinality(LeavingScope) |-> OpCode.Pop]]_vars
    /\ [](PrintsNine => stack_top = 2)

(***************************************************************************)
(* Assignment targets: scripts in which an `=` follows a bare variable,    *)
(* and scripts in which it follows another expression.                     *)
(***************************************************************************)
GlobalTargetSrc == "var a; a = 1; print a;"

LocalTargetSrc == "{ var a; var b; b = 2; print b; }"

ChainedTargetSrc == "var a; { var b; a = b = 3; print a + b; }"

SwapTargetSrc == "var a = 1; var b; b = a; a = b + 1; print a; print b;"

TargetSources == {GlobalTargetSrc, LocalTargetSrc, ChainedTargetSrc, SwapTargetSrc}

NoTargetSources ==
    {"var a = 1; var b = 2; var c = 3; a + b = c; print a;",
     "var a; (a) = 1; print a;",
     "{ var a = 1; var b = 2; a * b = 3; print a; }",
     "var a; !a = 1;",
     "fun f() {} f() = 1; f();",
     "var a; print a = 1 + a = 2;"}

RunAssign ==
    \E src \in TargetSources \cup NoTargetSources : interprets = 0 /\ Interpret(src)

NextAssign == RunAssign \/ Step

SpecAssign == Init /\ [][NextAssign]_vars

\* the instruction at code offset at of the script, and its operand
InstructionAt(at) == <<ScriptCode[at + 1], ScriptCode[at + 2]>>

\* C28: an `=` after an expression that is not a bare variable is reported as
\* an invalid assignment target, and the compile call ends and returns
\* failure; an `=` after a bare variable compiles to SetGlobal or SetLocal of
\* that variable and no error is reported.
C28_AssignmentTarget ==
    interprets = 1 =>
        /\ source \in NoTargetSources =>
              /\ status = "idle"
              /\ result = "compile_error"
              /\ stderr = <<"[line 1] Error at '=': Invalid assignment target">>
        /\ source \in TargetSources =>
              /\ result # "compile_error"
              /\ stderr = <<>>
        /\ (source = GlobalTargetSrc /\ status = "running") =>
              InstructionAt(5) = <<OpCode.SetGlobal, 1>>
        /\ (source = LocalTargetSrc /\ status = "running") =>
              InstructionAt(4) = <<OpCode.SetLocal, 2>>
        /\ (source = ChainedTargetSrc /\ status = "running" /\ Len(frames) = 1) =>
              /\ InstructionAt(6) = <<OpCode.SetLocal, 1>>
              /\ InstructionAt(8) = <<OpCode.SetGlobal, 1>>

\* `a + b = c;` was refused, and the statement after it was parsed
C28_Witness ==
    /\ interprets = 1
    /\ source = "var a = 1; var b = 2; var c = 3; a + b = c; print a;"
    /\ status = "idle"
    /\ result = "compile_error"
    /\ stderr = <<"[line 1] Error at '=': Invalid assignment target">>

(***************************************************************************)
(* The compiler context around a function declaration.                     *)
(***************************************************************************)
\* the step is the call of Parser::function of a fun declaration, and it returns
FunctionCompiled ==
    /\ phase = "function" /\ phase' = "defined"
    /\ ~parser'.crashed

\* the function object that the step allocates
NewFunction == parser'.heap.heap[Len(parser'.heap.heap)]

\* C29: compiling a function declaration leaves the enclosing compiler
\* context as it was (local list, scope depth, function type, the function
\* being compiled and its code so far); the enclosing chunk gains one constant,
\* the finished function object, and one Constant instruction that loads it,
\* and nothing of the body, also when the body has a compile error.  (The
\* last conjunct: the compile call followed step by step ends in what fn
\* compile returns.)
C29_EnclosingContext ==
    /\ [][FunctionCompiled =>
             /\ parser'.compiler.locals = parser.compiler.locals
             /\ parser'.compiler.scope_depth = parser.compiler.scope_depth
             /\ parser'.compiler.function_type = parser.compiler.function_type
             /\ parser'.compiler.function.name = parser.compiler.function.name
             /\ parser'.compiler.function.arity = parser.compiler.function.arity
             /\ parser'.compiler.function.chunk.constants
                    = Append(parser.compiler.function.chunk.constants,
                             Obj(Len(parser'.heap.heap) - 1))
             /\ parser'.compiler.function.chunk.code
                    = parser.compiler.function.chunk.code
                        \o <<OpCode.Constant, Len(parser.compiler.function.chunk.constants)>>
             /\ NewFunction.kind = "Function"
             /\ NewFunction.function.name = Some(parser.previous.str)
             /\ NewFunction.function.chunk.code # <<>>]_vars
    /\ [](phase = "done" =>
            compile_result(parser)
                = compile(parser.scanner.source, ObjHeap_new, overflow_checks))

\* the function f, whose body has a compile error, is compiled in a block
\* that has the local x: the block's context is back
C29_Witness ==
    /\ phase = "defined"
    /\ parser.scanner.source = "{ var x = 1; fun f() { var a = ; print 2; } print x; }"
    /\ parser.had_error
    /\ parser.compiler.function_type = "Script"
    /\ parser.compiler.scope_depth = 1
    /\ Len(parser.compiler.locals) = 3
    /\ parser.compiler.function.chunk.code = <<OpCode.Constant, 0, OpCode.Constant, 1>>

(***************************************************************************)
(* Names that a function body does not declare.                            *)
(***************************************************************************)
\* the functions named f that the compile call has allocated
FunctionsF ==
    {i \in 1..Len(parser.heap.heap) :
        /\ parser.heap.heap[i].kind = "Function"
        /\ parser.heap.heap[i].function.name = Some("f")}

\* the code of f when x is a global of f: the name is constant 0 of its chunk
GlobalReadCode == <<OpCode.GetGlobal, 0, OpCode.OpPrint, OpCode.Return>>

GlobalWriteCode ==
    <<OpCode.Constant, 1, OpCode.SetGlobal, 0, OpCode.Pop, OpCode.Return>>

\* the code of f when x is its parameter or its local, in slot 1
LocalReadCode == <<OpCode.GetLocal, 1, OpCode.OpPrint, OpCode.Return>>

BodyCode(src) ==
    CASE src \in {BlockLocalReadSrc, OuterParameterSrc, OuterLocalSrc} -> GlobalReadCode
      [] src = BlockLocalWriteSrc -> GlobalWriteCode
      [] src = OwnParameterSrc -> LocalReadCode
      [] src = OwnLocalSrc -> <<OpCode.Constant, 0>> \o LocalReadCode

\* C30: in the body of a function a name that is not a parameter or local of
\* that function compiles to GetGlobal or SetGlobal of the name, also when the
\* block or the function around it has a local of that name, and no compile
\* error is reported; a parameter or local of the function itself compiles
\* to its slot.
C30_FreeNamesAreGlobal ==
    parser.scanner.source \in FreeNameSources =>
        /\ ~parser.had_error
        /\ parser.stderr = <<>>
        /\ phase = "done" => FunctionsF # {}
        /\ \A i \in FunctionsF :
              /\ parser.heap.heap[i].function.chunk.code = BodyCode(parser.scanner.source)
              /\ BodyCode(parser.scanner.source)[1] = OpCode.GetGlobal =>
                    borrow(parser.heap,
                           parser.heap.heap[i].function.chunk.constants[1].ptr)
                        = ObjString("x")

\* f is compiled in the block that has the local x: its body reads the
\* global x
C30_Witness ==
    /\ phase = "defined"
    /\ parser.scanner.source = BlockLocalReadSrc
    /\ Len(parser.compiler.locals) = 3
    /\ parser.compiler.locals[2].name.str = "x"
    /\ FunctionsF = {2}
    /\ parser.heap.heap[2].function.chunk.code = GlobalReadCode
    /\ ~parser.had_error

(***************************************************************************)
(* Logical operators: `print a and (t = b); print t;` and the same with    *)
(* `or`, for operands a of every kind of value; t tells whether the right   *)
(* operand was evaluated.                                                   *)
(***************************************************************************)
LeftOperands == {"nil", "false", "true", "0", "1", "\"\"", "\"s\"", "f"}

RightOperands == {"nil", "false", "7"}

LogicSrc(op, a, b) ==
    "fun f() {} var t = 5; print " \o a \o " " \o op \o " (t = " \o b \o "); print t;"

LogicCases == [op : {"and", "or"}, a : LeftOperands, b : RightOperands]

RunLogic ==
    \E c \in LogicCases : interprets = 0 /\ Interpret(LogicSrc(c.op, c.a, c.b))

NextLogic == RunLogic \/ Step

SpecLogic == Init /\ [][NextLogic]_vars

\* the value v is the one that the operand text denotes
Denotes(v, text) ==
    CASE text = "nil" -> v = Nil
      [] text = "false" -> v = Bool(FALSE)
      [] text = "true" -> v = Bool(TRUE)
      [] text = "0" -> v = Number(0)
      [] text = "1" -> v = Number(1)
      [] text = "5" -> v = Number(5)
      [] text = "7" -> v = Number(7)
      [] text = "\"\"" -> v.t = "Obj" /\ borrow(heap, v.ptr) = ObjString("")
      [] text = "\"s\"" -> v.t = "Obj" /\ borrow(heap, v.ptr) = ObjString("s")
      [] text = "f" -> /\ v.t = "Obj"
                       /\ borrow(heap, v.ptr).kind = "Function"
                       /\ borrow(heap, v.ptr).function.name = Some("f")

\* only nil and false are falsey
Falsey(text) == text \in {"nil", "false"}

\* the operand whose value the expression has, and whether the right one runs
LogicValue(c) ==
    IF c.op = "and" THEN (IF Falsey(c.a) THEN c.a ELSE c.b)
    ELSE (IF Falsey(c.a) THEN c.b ELSE c.a)

RightRuns(c) == IF c.op = "and" THEN ~Falsey(c.a) ELSE Falsey(c.a)

\* the script is about to print: the first time the value of the logical
\* expression, the second time t
PrintPending ==
    /\ status = "running"
    /\ Len(frames) = 1
    /\ byte_read(VM) = OpCode.OpPrint

\* C31: `a and b` leaves one value on the stack, that of a when a is falsey
\* (b is then not evaluated) and that of b otherwise; `a or b` leaves that
\* of a when a is truthy (b not evaluated) and that of b otherwise; nil and
\* false are falsey, every number, string and function is truthy.
C31_ShortCircuit ==
    \A c \in LogicCases :
        source = LogicSrc(c.op, c.a, c.b) =>
            /\ status # "crashed"
            /\ status = "idle" => (result = "ok" /\ Len(stdout) = 3)
            /\ PrintPending =>
                  /\ stack_top = 2
                  /\ Len(stdout) \in {1, 2}
                  /\ Len(stdout) = 1 => Denotes(stack[2], LogicValue(c))
                  /\ Len(stdout) = 2 =>
                        Denotes(stack[2], IF RightRuns(c) THEN c.b ELSE "5")

\* `0 and (t = 7)`: 0 is truthy, the right operand ran and its value, 7, is
\* the one about to be printed
C31_Witness ==
    /\ source = LogicSrc("and", "0", "7")
    /\ PrintPending
    /\ Len(stdout) = 1
    /\ stack[2] = Number(7)
    /\ stack_top = 2

(***************************************************************************)
(* The emissions of the compiler into one chunk, in any order: emit_byte,  *)
(* emit_jump, patch_jump of a jump that is still unpatched, emit_loop and  *)
(* make_constant.                                                          *)
(***************************************************************************)
\* the longest code and the most constants that are emitted
MaxCode == 6

MaxConstants == 2

EmitBytes == {OpCode.Pop, OpCode.Nil}

JumpInstructions == {OpCode.JumpIfFalse, OpCode.Jump}

CurrentChunk == parser.compiler.function.chunk

\* offset is what emit_jump returned for a jump that was not patched yet
UnpatchedJump(offset) ==
    /\ offset >= 1
    /\ offset + 2 <= code_len(parser)
    /\ CurrentChunk.code[offset] \in JumpInstructions
    /\ CurrentChunk.code[offset + 1] = 255
    /\ CurrentChunk.code[offset + 2] = 255

EmitUnchanged == CompilerUnchanged /\ UNCHANGED <<phase, global, walker>>

EmitByte ==
    \E byte \in EmitBytes :
        /\ code_len(parser) < MaxCode
        /\ parser' = emit_byte(parser, byte)
        /\ EmitUnchanged

EmitJump ==
    \E instruction \in JumpInstructions :
        /\ code_len(parser) + 3 <= MaxCode
        /\ parser' = emit_jump(parser, instruction).p
        /\ EmitUnchanged

PatchJumpAt(offset) ==
    /\ UnpatchedJump(offset)
    /\ parser' = patch_jump(parser, offset)
    /\ EmitUnchanged

PatchJump == \E offset \in 1..MaxCode : PatchJumpAt(offset)

EmitLoop ==
    \E loop_start \in 0..MaxCode :
        /\ loop_start <= code_len(parser)
        /\ code_len(parser) + 3 <= MaxCode
        /\ parser' = emit_loop(parser, loop_start)
        /\ EmitUnchanged

MakeConstant ==
    \E value \in {Nil, Number(1)} :
        /\ Len(CurrentChunk.constants) < MaxConstants
        /\ parser' = make_constant(parser, value).p
        /\ EmitUnchanged

NextEmit == EmitByte \/ EmitJump \/ PatchJump \/ EmitLoop \/ MakeConstant

SpecEmit == Init /\ [][NextEmit]_vars

\* patch_jump of the jump at offset left both lengths and every byte but the
\* two of the operand as they were
PatchedInPlace(offset) ==
    /\ Len(CurrentChunk.code)' = Len(CurrentChunk.code)
    /\ Len(CurrentChunk.lines)' = Len(CurrentChunk.lines)
    /\ Len(CurrentChunk.constants)' = Len(CurrentChunk.constants)
    /\ CurrentChunk.lines' = CurrentChunk.lines
    /\ \A i \in 1..Len(CurrentChunk.code) :
          i \notin {offset + 1, offset + 2} => CurrentChunk.code'[i] = CurrentChunk.code[i]
    /\ CurrentChunk.code'[offset + 1] * 256 + CurrentChunk.code'[offset + 2]
          = code_len(parser) - offset - 2

\* C32: after any sequence of emissions the code and the line table of the
\* chunk have the same length, and patching a jump rewrites the two bytes of
\* its operand and changes no length.
C32_LinesMatchCode ==
    /\ [](Len(CurrentChunk.code) = Len(CurrentChunk.lines))
    /\ [][\A offset \in 1..MaxCode : PatchJumpAt(offset) => PatchedInPlace(offset)]_vars

\* a jump over one instruction, patched: four bytes of code, four lines
C32_Witness ==
    /\ CurrentChunk.code = <<OpCode.JumpIfFalse, 0, 1, OpCode.Pop>>
    /\ Len(CurrentChunk.lines) = 4

(***************************************************************************)
(* Instruction boundaries: the offsets at which disassemble_chunk finds an *)
(* instruction, and the instruction pointers of the frames of a run.       *)
(***************************************************************************)
\* disassemble_instruction: the offset of the instruction after the one at offset
disassemble_instruction(code, offset) ==
    CASE code[offset + 1] \in {OpCode.Constant, OpCode.DefineGlobal, OpCode.GetGlobal,
                               OpCode.SetGlobal} -> offset + 2
      [] code[offset + 1] \in {OpCode.GetLocal, OpCode.SetLocal, OpCode.Call} -> offset + 2
      [] code[offset + 1] \in {OpCode.Jump, OpCode.JumpIfFalse, OpCode.Loop} -> offset + 3
      [] code[offset + 1] = OpCode.Closure -> offset + 2
      [] OTHER -> offset + 1

\* disassemble_chunk: the offsets it passes to disassemble_instruction, from offset on
RECURSIVE disassemble_chunk(_, _)
disassemble_chunk(code, offset) ==
    IF offset >= Len(code) THEN {}
    ELSE {offset} \cup disassemble_chunk(code, disassemble_instruction(code, offset))

IfOrSrc ==
    "var i = 0; while (i < 3) { if (i == 1 or i > 5) print i; else print i + 5; i = i + 1; }"

ForAndSrc == "for (var i = 0; i < 2; i = i + 1) { print i == 1 and i; } print nil or 2;"

ForBareSrc == "var n = 2; for (; n > 0;) n = n - 1; for (var j; !j; j = 1) print j;"

CallIfSrc == "fun f(a) { if (a) { print 1; } else { print 2; } while (a) { a = nil; } } f(true);"

BoundarySources == {IfOrSrc, ForAndSrc, ForBareSrc, CallIfSrc}

RunBoundary == \E src \in BoundarySources : interprets = 0 /\ Interpret(src)

NextBoundary == RunBoundary \/ Step

SpecBoundary == Init /\ [][NextBoundary]_vars

FrameCode(i) == frame_function(VM, frames[i]).chunk.code

\* C33: while a program that compiled without error runs, the instruction
\* pointer of the active frame is, at every dispatch, the offset of an
\* instruction of its chunk: not of an operand, not past the end; the same
\* holds for the frames below it.
C33_InstructionBoundary ==
    (status = "running" /\ source \in BoundarySources) =>
        /\ Len(frames) >= 1
        /\ \A i \in 1..Len(frames) : frames[i].ip \in disassemble_chunk(FrameCode(i), 0)

\* the while loop of IfOrSrc is back at its condition after the first turn,
\* which took the else branch
C33_Witness ==
    /\ source = IfOrSrc
    /\ status = "running"
    /\ stdout = <<"5">>
    /\ byte_read(VM) = OpCode.GetGlobal
    /\ stack_top = 1
    /\ frames[1].ip = 4

(***************************************************************************)
(* Termination of compile: token sequences, well-formed or not, compiled   *)
(* declaration by declaration.                                             *)
(***************************************************************************)
\* the longest sequence of arbitrary tokens after a prefix, and the pulls
\* that are followed from a parser state
MaxTail == 2

MaxPulls == 8

TokenWords == {"fun", "var", "x", "=", "+", "(", ")", ",", ";", "{", "}"}

\* prefixes that leave the parser in the top-level loop, the parameter loop,
\* the argument loop, the loop of block and the infix loop
TokenPrefixes == {"", "fun f ( a ", "x ( x ", "{ var x = x ", "x + "}

RECURSIVE JoinWords(_)
JoinWords(words) ==
    IF words = <<>> THEN "" ELSE Head(words) \o " " \o JoinWords(Tail(words))

TokenSources ==
    {prefix \o JoinWords(tail) :
        prefix \in TokenPrefixes, tail \in UNION {[1..n -> TokenWords] : n \in 0..MaxTail}}

CompileTokens == \E src \in TokenSources : CompileBegin(src)

NextTokens == CompileTokens \/ CompileStep

SpecTokens == Init /\ [][NextTokens]_vars

\* the characters the scanner has not passed yet, plus one while the token
\* in hand is not EOF: what is left for the parser to consume
Unconsumed(p) ==
    Len(p.scanner.source) - p.scanner.start - p.scanner.current
        + (IF p.current.typ = "EOF" THEN 0 ELSE 1)

\* the parser after k more calls of advance
RECURSIVE Pulled(_, _)
Pulled(p, k) == IF k = 0 THEN p ELSE Pulled(advance(p), k - 1)

\* the loop of Parser::compile or of Parser::block is about to call declaration
DeclarationCalled ==
    /\ Compiling("declaration")
    /\ ~check(parser, "EOF")
    /\ ~(check(parser, "RightBrace") /\ parser.compiler.scope_depth > 0)

\* a pass of the argument loop that does not end the loop consumed a token
ArgumentPassConsumes(p) ==
    Bind(argument_iteration([p |-> p, ret |-> 0, done |-> FALSE]), LAMBDA s :
       (~s.done /\ ~s.p.crashed) => Unconsumed(s.p) < Unconsumed(p))

\* a pass of the parameter loop that does not end the loop consumed a token
ParameterPassConsumes(p) ==
    Bind(parameter_iteration(p), LAMBDA p3 :
       (check(p3, "Comma") /\ ~p3.crashed) => Unconsumed(advance(p3)) < Unconsumed(p))

\* a pass of the loop of parse_precedence, and one of synchronize, consumed a token
InfixPassConsumes(p) ==
    \A precedence \in Precedence.Assignment..Precedence.Primary :
        precedence <= get_rule(p.current.typ).precedence =>
            Unconsumed(advance(p)) < Unconsumed(p)

SynchronizePassConsumes(p) ==
    p.current.typ # "EOF" => Unconsumed(advance(p)) < Unconsumed(p)

\* at the end of input every further pull returns EOF
EndOfInputStays(p) ==
    p.current.typ = "EOF" =>
        /\ advance(p).current.typ = "EOF"
        /\ Unconsumed(advance(p)) = 0

\* the passes of the loops started at parser state p
PassesConsume(p) ==
    p.crashed \/ advance(p).crashed
    \/ /\ SynchronizePassConsumes(p)
       /\ EndOfInputStays(p)
       /\ InfixPassConsumes(p)
       /\ ArgumentPassConsumes(p)
       /\ ParameterPassConsumes(p)

\* the loops at the parser state of the step, and, when the compile call
\* begins, at every token of the source
LoopsConsume ==
    phase # "idle" =>
        /\ PassesConsume(parser)
        /\ parser.previous = NoopToken =>
              \A k \in 1..MaxPulls : PassesConsume(Pulled(parser, k))
        /\ DeclarationCalled =>
              \/ declaration(parser).crashed
              \/ Unconsumed(declaration(parser)) < Unconsumed(parser)

PhaseRank ==
    CASE phase \in {"initializer", "function"} -> 3
      [] phase \in {"define", "defined"} -> 2
      [] phase = "declaration" -> 1
      [] OTHER -> 0

\* what is left of the compile call: the input, the open blocks, the parts
\* of the declaration in hand
CompileRank == <<Unconsumed(parser), parser.compiler.scope_depth, PhaseRank>>

RankBelow(a, b) ==
    \/ a[1] < b[1]
    \/ a[1] = b[1] /\ a[2] < b[2]
    \/ a[1] = b[1] /\ a[2] = b[2] /\ a[3] < b[3]

\* C34: compile terminates on every token sequence: every call of
\* declaration from the loop of compile or of block consumes a token, every
\* pass of the argument, parameter, infix and synchronize loops that goes on
\* consumes a token, pulls at the end of input keep returning EOF, and every
\* step of the compile call lowers what is left of it.
C34_CompileTerminates ==
    /\ []LoopsConsume
    /\ [][(phase # "idle" /\ ~parser'.crashed) => RankBelow(CompileRank', CompileRank)]_vars

\* an unclosed parameter list followed by more tokens was compiled to its end
C34_Witness ==
    /\ phase = "done"
    /\ parser.scanner.source = "fun f ( a , { "
    /\ parser.had_error

(***************************************************************************)
(* The operand stack in loops.  A loop that runs for long is followed turn *)
(* by turn for its first MaxTurns turns; LoopAhead then takes the VM to    *)
(* the state that the same turns leave when the stack is nearly full.      *)
(***************************************************************************)
\* the turns of a loop that are followed one dispatch at a time
MaxTurns == 8

ForeverSrc == "for (;true;) {}"

StackSources ==
    {ForeverSrc,
     "for (var i = 0; i < 3; i = i + 1) { print i; }",
     "var n = 0; while (n < 3) { n = n + 1; }",
     "fun f(a, b) { print a + b; } f(1, 2);"}

RunStack == \E src \in StackSources : interprets = 0 /\ Interpret(src)

\* the script's function with n values `true` above it
Deepened(vm, n) ==
    [vm EXCEPT !.stack = SubSeq(vm.stack, 1, 1) \o [k \in 1..n |-> Bool(TRUE)],
               !.stack_top = n + 1]

\* the three dispatches of one turn of ForeverSrc: True, JumpIfFalse, Loop
Turn(vm) == run_instruction(run_instruction(run_instruction(vm).vm).vm).vm

\* ForeverSrc is at the head of its loop, every turn so far having left its
\* condition value on the stack
AtLoopHead ==
    /\ source = ForeverSrc
    /\ status = "running"
    /\ frames[1].ip = 0
    /\ VM = Deepened(VM, stack_top - 1)

\* a turn adds one `true`, on the stack of MaxTurns values as on the stack of
\* STACK_MAX - 3: the turns in between take the VM from the one to the other
LoopAhead ==
    /\ AtLoopHead
    /\ stack_top = MaxTurns + 1
    /\ Turn(VM) = Deepened(VM, MaxTurns + 1)
    /\ Turn(Deepened(VM, STACK_MAX - 3)) = Deepened(VM, STACK_MAX - 2)
    /\ stack' = Deepened(VM, STACK_MAX - 2).stack
    /\ stack_top' = STACK_MAX - 1
    /\ UNCHANGED <<frames, heap, globals, stdout, stderr, status, result, last_error,
                   source, interprets, overflow_checks, handles, parser, phase, global, walker>>

StackStep ==
    /\ ~(AtLoopHead /\ stack_top = MaxTurns + 1)
    /\ stack_top <= MaxTurns + 1 \/ stack_top >= STACK_MAX - 1
    /\ Step

NextStack == RunStack \/ StackStep \/ LoopAhead

SpecStack == Init /\ [][NextStack]_vars

\* the pending instruction pushes a value
PushPending ==
    byte_read(VM) \in {OpCode.Constant, OpCode.Nil, OpCode.True, OpCode.False,
                       OpCode.GetLocal, OpCode.GetGlobal}

\* the pending instruction pops or peeks
PopPending ==
    byte_read(VM) \in {OpCode.Pop, OpCode.OpPrint, OpCode.JumpIfFalse, OpCode.Not,
                       OpCode.Negate, OpCode.Add, OpCode.Subtract, OpCode.Multiply,
                       OpCode.Divide, OpCode.Equal, OpCode.Greater, OpCode.Less,
                       OpCode.DefineGlobal, OpCode.SetGlobal, OpCode.SetLocal, OpCode.Call}

\* C35: while a program that compiled without error runs, stack_top stays
\* within 0..STACK_MAX: no pop or peek finds the stack empty and no push
\* finds it full, also in loops that run for long.
C35_StackWithinBounds ==
    source \in StackSources =>
        /\ status # "crashed"
        /\ stack_top \in 0..STACK_MAX
        /\ status = "running" =>
              /\ ~(PushPending /\ stack_top = STACK_MAX)
              /\ ~(PopPending /\ stack_top = 0)

(***************************************************************************)
(* A long repl session of lines that call no function.                     *)
(***************************************************************************)
PrintLine == "print 1;"

\* a line that fails at run time, and one that fails to compile
UndefinedLine == "print x;"

UnfinishedLine == "print ;"

CallFreeLines == {PrintLine, UndefinedLine, UnfinishedLine}

\* the session: any of the lines first, print lines after it, one line more
\* than there can be frames
ReplLine ==
    \E src \in CallFreeLines :
        /\ interprets <= FRAMES_MAX
        /\ interprets > 0 => src = PrintLine
        /\ InterpretCall(src)

NextRepl == ReplLine \/ Step

SpecRepl == Init /\ [][NextRepl]_vars

\* C36: "Stack overflow!" is raised only when FRAMES_MAX calls are nested: a
\* line that calls no function never fails with it, however many lines the
\* VM has interpreted before.
C36_OverflowNeedsCalls ==
    source \in CallFreeLines => last_error.message # "Stack overflow!"

(***************************************************************************)
(* The rule table in the loop of parse_precedence: expression statements   *)
(* of arbitrary operator and operand tokens.                               *)
(***************************************************************************)
\* the longest sequence of arbitrary tokens after a prefix
MaxRuleTail == 2

RuleWords == {"x", "+", "*", "/", "!", "==", "<", "and", "or", "(", ")", "=", ";"}

RulePrefixes == {"", "x ", "x * ", "x ( "}

RuleSources ==
    {prefix \o JoinWords(tail) :
        prefix \in RulePrefixes, tail \in UNION {[1..n -> RuleWords] : n \in 0..MaxRuleTail}}

CompileRules == \E src \in RuleSources : CompileBegin(src)

NextRules == CompileRules \/ Statement \/ CompileEnd

SpecRules == Init /\ [][NextRules]_vars

TokenTypes ==
    {"LeftParen", "RightParen", "LeftBrace", "RightBrace", "Comma", "Dot", "Minus", "Plus",
     "Semicolon", "Slash", "Star", "Bang", "BangEqual", "Equal", "EqualEqual", "Greater",
     "GreaterEqual", "Less", "LessEqual", "Identifier", "String", "Number", "And", "Class",
     "Else", "False", "Fun", "For", "If", "Nil", "Or", "Print", "Return", "Super", "This",
     "True", "Var", "While", "EOF", "NOOP", "Error"}

\* the minimum precedences that the handlers pass to parse_precedence:
\* expression, unary, and, or, and binary for each of its operators
RequestedMinimums ==
    {Precedence.Assignment, Precedence.Unary, Precedence.And, Precedence.Or}
        \cup {get_rule(typ).precedence + 1 :
                 typ \in {t \in TokenTypes : get_rule(t).infix = Some("binary")}}

\* every token that the loop of parse_precedence can take has an infix handler
InfixRulesPresent ==
    \A typ \in TokenTypes :
        \A minimum \in RequestedMinimums :
            minimum <= get_rule(typ).precedence => get_rule(typ).infix # None

\* C37: in the loop of parse_precedence a token whose precedence is at least
\* the requested minimum has an infix handler, and the minimum is neither
\* Precedence::None nor above Primary: no token sequence makes the loop
\* unwrap a missing rule or binary step out of the range of Precedence.
C37_InfixRulePresent ==
    /\ InfixRulesPresent
    /\ RequestedMinimums \subseteq Precedence.Assignment..Precedence.Primary
    /\ phase # "idle" =>
          /\ ~parser.crashed
          /\ Precedence.Assignment <= get_rule(parser.current.typ).precedence
                => get_rule(parser.current.typ).infix # None

\* `x * x ;` was compiled without error: the loop took `*`, and binary asked
\* for the precedence above Factor
C37_Witness ==
    /\ phase = "done"
    /\ parser.scanner.source = "x * x ; "
    /\ ~parser.had_error
    /\ parser.compiler.function.chunk.code[Len(parser.compiler.function.chunk.code) - 2]
          = OpCode.Multiply

(***************************************************************************)
(* The scanner alone: scan_token called again and again on a short text.   *)
(***************************************************************************)
\* the longest text that is scanned
MaxText == 3

TextChars == {"/", "1", ".", "a", " ", "=", "\""}

RECURSIVE JoinChars(_)
JoinChars(chars) == IF chars = <<>> THEN "" ELSE Head(chars) \o JoinChars(Tail(chars))

Texts == {JoinChars(chars) : chars \in UNION {[1..n -> TextChars] : n \in 0..MaxText}}

\* Scanner::new on the text
ScanBegin ==
    \E text \in Texts :
        /\ phase = "idle"
        /\ parser' = Parser_new(text, ObjHeap_new, overflow_checks)
        /\ phase' = "scan"
        /\ UNCHANGED global
        /\ CompilerUnchanged

\* one call of scan_token; the token is kept in parser.current
ScanToken ==
    /\ phase = "scan"
    /\ ~parser.scanner.crashed
    /\ parser' = [parser EXCEPT !.scanner = scan_token(parser.scanner).scanner,
                                !.current = scan_token(parser.scanner).token,
                                !.previous = parser.current]
    /\ UNCHANGED <<phase, global, walker>>
    /\ CompilerUnchanged

NextScan == ScanBegin \/ ScanToken

SpecScan == Init /\ [][NextScan]_vars

\* C38: scan_token returns a token without faulting whatever the text ends
\* with, and once it has returned EOF every further call returns EOF.
C38_ScanNeverFaults ==
    phase = "scan" =>
        /\ ~parser.scanner.crashed
        /\ parser.previous.typ = "EOF" => parser.current.typ = "EOF"

(***************************************************************************)
(* The tree-walking implementation (src/lox-treewalker): the Resolver, the *)
(* environments and the part of the Interpreter that runs blocks, variable *)
(* declarations, reads and assignments.  A program is the statement list   *)
(* that the parser hands to the resolver.                                  *)
(***************************************************************************)
\* ast.rs: the statements and expressions that are modelled
StmtBlock(statements) == [kind |-> "Block", statements |-> statements]

StmtExpression(expr) == [kind |-> "Expression", expr |-> expr]

StmtPrinted(expr) == [kind |-> "Printed", expr |-> expr]

StmtVar(name, initializer) == [kind |-> "Var", name |-> name, initializer |-> initializer]

ExprLiteral(value) == [kind |-> "Literal", value |-> value]

ExprVariable(name, expr_id) == [kind |-> "Variable", name |-> name, expr_id |-> expr_id]

ExprAssign(name, value, expr_id) ==
    [kind |-> "Assign", name |-> name, value |-> value, expr_id |-> expr_id]

\* a HashMap without entries, and HashMap::insert
EmptyMap == [key \in {} |-> Nil]

Inserted(map, key, value) == (key :> value) @@ map

\* Environment::new and Environment::new_with_enclosing; environments live in
\* the list `environments` of the interpreter, an Rc is an index into it and
\* 0 stands for no enclosing environment
Environment_new == [values |-> EmptyMap, enclosing |-> 0]

new_with_enclosing(enclosing) == [values |-> EmptyMap, enclosing |-> enclosing]

\* Interpreter::new, without the builtin clock
Interpreter_new ==
    [environments |-> <<Environment_new>>, environment |-> 1, globals |-> 1,
     locals |-> EmptyMap, output |-> <<>>, error |-> None, panicked |-> FALSE]

\* Interpreter::resolve
Interpreter_resolve(interpreter, expr_id, depth) ==
    [interpreter EXCEPT !.locals = Inserted(@, expr_id, depth)]

\* Resolver::new
Resolver_new(interpreter) == [interpreter |-> interpreter, scopes |-> <<>>, had_error |-> FALSE]

Resolver_begin_scope(r) == [r EXCEPT !.scopes = Append(@, EmptyMap)]

Resolver_end_scope(r) == [r EXCEPT !.scopes = SubSeq(@, 1, Len(@) - 1)]

Resolver_declare(r, name) ==
    IF r.scopes = <<>> THEN r
    ELSE [r EXCEPT !.scopes[Len(r.scopes)] = Inserted(@, name, FALSE)]

Resolver_define(r, name) ==
    IF r.scopes = <<>> THEN r
    ELSE [r EXCEPT !.scopes[Len(r.scopes)] = Inserted(@, name, TRUE)]

\* Resolver::resolve_local: scopes.iter().enumerate() begins at the outermost
\* scope, and the first scope that holds the name decides the distance
Resolver_resolve_local(r, expr_id, name) ==
    Bind({index \in 0..(Len(r.scopes) - 1) : name \in DOMAIN r.scopes[index + 1]},
         LAMBDA holding :
       IF holding = {} THEN r
       ELSE Bind(CHOOSE index \in holding : \A other \in holding : index <= other,
                 LAMBDA index :
               [r EXCEPT !.interpreter =
                            Interpreter_resolve(@, expr_id, Len(r.scopes) - 1 - index)]))

\* Resolver::resolve_expr
RECURSIVE resolve_expr(_, _)
resolve_expr(r, expr) ==
    CASE expr.kind = "Assign" ->
             Resolver_resolve_local(resolve_expr(r, expr.value), expr.expr_id, expr.name)
      [] expr.kind = "Literal" -> r
      [] expr.kind = "Variable" ->
             Resolver_resolve_local(
                 IF r.scopes # <<>>
                    /\ expr.name \in DOMAIN r.scopes[Len(r.scopes)]
                    /\ r.scopes[Len(r.scopes)][expr.name] = FALSE
                 THEN [r EXCEPT !.had_error = TRUE] ELSE r,
                 expr.expr_id, expr.name)

\* Resolver::resolve_stmt, and Resolver::resolve from statement `from` on
RECURSIVE resolve_stmt(_, _)
RECURSIVE Resolver_resolve(_, _, _)
Resolver_resolve(r, statements, from) ==
    IF from > Len(statements) THEN r
    ELSE Resolver_resolve(resolve_stmt(r, statements[from]), statements, from + 1)

resolve_stmt(r, stmt) ==
    CASE stmt.kind = "Block" ->
             Resolver_end_scope(Resolver_resolve(Resolver_begin_scope(r), stmt.statements, 1))
      [] stmt.kind = "Expression" -> resolve_expr(r, stmt.expr)
      [] stmt.kind = "Printed" -> resolve_expr(r, stmt.expr)
      [] stmt.kind = "Var" ->
             Bind(Resolver_declare(r, stmt.name), LAMBDA declared :
                Resolver_define(
                    IF stmt.initializer # None
                    THEN resolve_expr(declared, stmt.initializer[1]) ELSE declared,
                    stmt.name))

\* environment.rs: anchestor; 0 when the chain ends before the distance
RECURSIVE anchestor(_, _, _)
anchestor(environments, environment, distance) ==
    IF distance = 0 \/ environment = 0 THEN environment
    ELSE anchestor(environments, environments[environment].enclosing, distance - 1)

\* get_at: the value, or None where the expect or the index panics
get_at(environments, environment, distance, name) ==
    Bind(anchestor(environments, environment, distance), LAMBDA found :
       IF found = 0 THEN None
       ELSE IF name \notin DOMAIN environments[found].values THEN None
       ELSE Some(environments[found].values[name]))

\* assign_at: the environments afterwards, or None where the expect panics
assign_at(environments, environment, distance, name, value) ==
    Bind(anchestor(environments, environment, distance), LAMBDA found :
       IF found = 0 THEN None
       ELSE Some([environments EXCEPT ![found].values = Inserted(@, name, value)]))

\* Environment::define
Environment_define(environments, environment, name, value) ==
    [environments EXCEPT ![environment].values = Inserted(@, name, value)]

\* Environment::get: the value, or None for "Undefined variable"
RECURSIVE Environment_get(_, _, _)
Environment_get(environments, environment, name) ==
    IF name \in DOMAIN environments[environment].values
    THEN Some(environments[environment].values[name])
    ELSE IF environments[environment].enclosing # 0
         THEN Environment_get(environments, environments[environment].enclosing, name)
    ELSE None

\* Environment::assign: the environments afterwards, or None for "Undefined variable"
RECURSIVE Environment_assign(_, _, _, _)
Environment_assign(environments, environment, name, value) ==
    IF name \in DOMAIN environments[environment].values
    THEN Some(Environment_define(environments, environment, name, value))
    ELSE IF environments[environment].enclosing # 0
         THEN Environment_assign(environments, environments[environment].enclosing,
                                 name, value)
    ELSE None

Failed(interpreter) == interpreter.panicked \/ interpreter.error # None

UndefinedVariable(interpreter, name) ==
    [interpreter EXCEPT !.error = Some("Undefined variable '" \o name \o "'")]

\* Interpreter::lookup_variable: the interpreter and the value
lookup_variable(interpreter, name, expr_id) ==
    IF expr_id \in DOMAIN interpreter.locals
    THEN Bind(get_at(interpreter.environments, interpreter.environment,
                     interpreter.locals[expr_id], name), LAMBDA got :
            IF got = None THEN [interpreter |-> [interpreter EXCEPT !.panicked = TRUE],
                                value |-> Nil]
            ELSE [interpreter |-> interpreter, value |-> got[1]])
    ELSE Bind(Environment_get(interpreter.environments, interpreter.globals, name),
              LAMBDA got :
            IF got = None THEN [interpreter |-> UndefinedVariable(interpreter, name),
                                value |-> Nil]
            ELSE [interpreter |-> interpreter, value |-> got[1]])

\* the Expr::Assign arm of evaluate, once the value is known
evaluate_assign(interpreter, expr, value) ==
    IF expr.expr_id \in DOMAIN interpreter.locals
    THEN Bind(assign_at(interpreter.environments, interpreter.environment,
                        interpreter.locals[expr.expr_id], expr.name, value), LAMBDA assigned :
            IF assigned = None THEN [interpreter EXCEPT !.panicked = TRUE]
            ELSE [interpreter EXCEPT !.environments = assigned[1]])
    ELSE Bind(Environment_assign(interpreter.environments, interpreter.globals,
                                 expr.name, value), LAMBDA assigned :
            IF assigned = None THEN UndefinedVariable(interpreter, expr.name)
            ELSE [interpreter EXCEPT !.environments = assigned[1]])

\* Interpreter::evaluate: the interpreter and the value
RECURSIVE evaluate(_, _)
evaluate(interpreter, expr) ==
    CASE expr.kind = "Literal" -> [interpreter |-> interpreter, value |-> expr.value]
      [] expr.kind = "Variable" -> lookup_variable(interpreter, expr.name, expr.expr_id)
      [] expr.kind = "Assign" ->
             Bind(evaluate(interpreter, expr.value), LAMBDA r :
                IF Failed(r.interpreter) THEN r
                ELSE [interpreter |-> evaluate_assign(r.interpreter, expr, r.value),
                      value |-> r.value])

\* println!("{}", value)
value_display(value) == IF value.t = "Number" THEN FormatNumber(value.n) ELSE "nil"

\* the Stmt::Var arm of execute
execute_var(interpreter, stmt) ==
    Bind(IF stmt.initializer # None THEN evaluate(interpreter, stmt.initializer[1])
         ELSE [interpreter |-> interpreter, value |-> Nil], LAMBDA r :
       IF Failed(r.interpreter) THEN r.interpreter
       ELSE [r.interpreter EXCEPT !.environments =
                Environment_define(@, r.interpreter.environment, stmt.name, r.value)])

\* the Stmt::Print arm of execute
execute_printed(interpreter, stmt) ==
    Bind(evaluate(interpreter, stmt.expr), LAMBDA r :
       IF Failed(r.interpreter) THEN r.interpreter
       ELSE [r.interpreter EXCEPT !.output = Append(@, value_display(r.value))])

\* Interpreter::execute, and the loop of execute_block from statement `from` on
RECURSIVE execute(_, _)
RECURSIVE execute_statements(_, _, _)
execute_statements(interpreter, statements, from) ==
    IF from > Len(statements) \/ Failed(interpreter) THEN interpreter
    ELSE execute_statements(execute(interpreter, statements[from]), statements, from + 1)

\* Interpreter::execute_block: the environment of the block is current while
\* its statements run, the previous one afterwards
execute_block(interpreter, statements, environment) ==
    Bind(interpreter.environment, LAMBDA previous :
       [execute_statements([interpreter EXCEPT !.environment = environment], statements, 1)
           EXCEPT !.environment = previous])

execute(interpreter, stmt) ==
    CASE stmt.kind = "Block" ->
             execute_block(
                 [interpreter EXCEPT
                     !.environments = Append(@, new_with_enclosing(interpreter.environment))],
                 stmt.statements, Len(interpreter.environments) + 1)
      [] stmt.kind = "Expression" -> evaluate(interpreter, stmt.expr).interpreter
      [] stmt.kind = "Printed" -> execute_printed(interpreter, stmt)
      [] stmt.kind = "Var" -> execute_var(interpreter, stmt)

(***************************************************************************)
(* Programs of nested blocks around one name: `var a = 0;` at the top      *)
(* level, blocks nested `depth` deep of which those in `declaring` begin   *)
(* with `var a = <level>;`, an optional `a = 9;` in the innermost block,   *)
(* and `print a;` at the end of every block and of the program.            *)
(***************************************************************************)
\* the deepest nesting of blocks
MaxDepth == 3

\* the expr_id of the assignment; the `print a;` of level i has expr_id i
AssignId == MaxDepth + 1

RECURSIVE LevelBlock(_, _)
LevelBlock(shape, level) ==
    StmtBlock(
        (IF level \in shape.declaring
         THEN <<StmtVar("a", Some(ExprLiteral(Number(level))))>> ELSE <<>>)
        \o (IF level < shape.depth THEN <<LevelBlock(shape, level + 1)>>
            ELSE IF shape.assigns
                 THEN <<StmtExpression(ExprAssign("a", ExprLiteral(Number(9)), AssignId))>>
            ELSE <<>>)
        \o <<StmtPrinted(ExprVariable("a", level))>>)

NestedProgram(shape) ==
    <<StmtVar("a", Some(ExprLiteral(Number(0)))), LevelBlock(shape, 1),
      StmtPrinted(ExprVariable("a", 0))>>

Shapes ==
    UNION {[depth : {depth}, declaring : SUBSET (1..depth), assigns : BOOLEAN] :
              depth \in 1..MaxDepth}

\* Lox::run after the parser: the resolver, then the interpreter if it found
\* no error
WalkBegin ==
    \E shape \in Shapes :
        /\ walker.phase = "idle"
        /\ walker' = Bind(Resolver_resolve(Resolver_new(Interpreter_new),
                                           NestedProgram(shape), 1), LAMBDA r :
                        [phase |-> IF r.had_error THEN "done" ELSE "run",
                         shape |-> shape, statements |-> NestedProgram(shape),
                         next |-> 1, interpreter |-> r.interpreter])
        /\ UNCHANGED <<parser, phase, global>>
        /\ UNCHANGED <<frames, stack, stack_top, heap, globals, stdout, stderr, status,
                       result, last_error, source, interprets, overflow_checks, handles>>

\* one turn of the loop of Interpreter::interpret
WalkStatement ==
    /\ walker.phase = "run"
    /\ walker' = Bind(execute(walker.interpreter, walker.statements[walker.next]), LAMBDA i :
                    [walker EXCEPT !.interpreter = i,
                                   !.next = @ + 1,
                                   !.phase = IF Failed(i) \/ walker.next = Len(walker.statements)
                                             THEN "done" ELSE "run"])
    /\ UNCHANGED <<parser, phase, global>>
    /\ UNCHANGED <<frames, stack, stack_top, heap, globals, stdout, stderr, status,
                   result, last_error, source, interprets, overflow_checks, handles>>

NextWalk == WalkBegin \/ WalkStatement

SpecWalk == Init /\ [][NextWalk]_vars

\* the level of the nearest declaration of `a` at or around the block of level
\* i; 0 is the declaration at the top level
Nearest(shape, level) ==
    CHOOSE i \in (shape.declaring \cup {0}) :
        /\ i <= level
        /\ \A j \in (shape.declaring \cup {0}) : j <= level => j <= i

\* what `print a;` at the end of the block of that level prints when every
\* reference reaches the nearest declaration
NearestValue(shape, level) ==
    IF shape.assigns /\ Nearest(shape, level) = Nearest(shape, shape.depth) THEN 9
    ELSE Nearest(shape, level)

\* the lines from the innermost block outwards
NearestOutput(shape) ==
    [k \in 1..(shape.depth + 1) |-> FormatNumber(NearestValue(shape, shape.depth + 1 - k))]

\* C39: the resolver records for each reference the distance to the innermost
\* enclosing scope that declares the name, so that a read or an assignment in
\* an inner block reaches the nearest declaration, also when an outer block
\* declares the same name.
C39_NearestDeclaration ==
    walker.phase = "done" =>
        /\ ~Failed(walker.interpreter)
        /\ walker.interpreter.output = NearestOutput(walker.shape)

====
